---- MODULE Spec2Model ----
(***************************************************************************)
(* CoreMemories retrieval: the relationship graph store (ChainLinkageStore *)
(* in chain-linkage.ts), the embedding store (VectorStore in               *)
(* vector-store.ts) and the fusion engine (HybridRetrieval).               *)
(* NeuronWaves: the two policy gates (decidePolicy, decide) and the two    *)
(* loops named runNeuronWavesLoop.                                         *)
(*                                                                         *)
(* Numbers.  Scores, strengths and weights are JavaScript numbers in the   *)
(* code.  Here they are fixed-point integers in units of 1/ONE: 0.3 is     *)
(* 3000, 1.0 is ONE.  The inputs the specifications draw are chosen so     *)
(* that every product, quotient and square root the code computes on them  *)
(* is exact in this unit (strengths are tenths, vectors have whole norms). *)
(***************************************************************************)
EXTENDS Integers, Sequences, FiniteSets, TLC

VARIABLES indexFile, now, lastOp, trav, vectorFiles, config, out, writers, nw

vars == <<indexFile, now, lastOp, trav, vectorFiles, config, out, writers, nw>>

(***************************************************************************)
(* Fixed-point arithmetic standing for JavaScript number arithmetic.       *)
(***************************************************************************)
SqrtOne == 100

ONE == SqrtOne * SqrtOne

Abs(a) == IF a < 0 THEN -a ELSE a

RECURSIVE GCD(_, _)
GCD(a, b) == IF b = 0 THEN Abs(a) ELSE GCD(b, Abs(a) % Abs(b))

\* a * b and a / b in units of 1/ONE; the common factor with ONE is divided
\* out first so that the intermediate product stays a machine integer
Mul(a, b) == LET g == GCD(a, ONE) IN IF a = 0 THEN 0 ELSE ((a \div g) * b) \div (ONE \div g)

Div(a, b) == LET g == GCD(b, ONE) IN (a * (ONE \div g)) \div (b \div g)

\* the integer square root, by Newton's iteration from above
RECURSIVE ISqrtFrom(_, _)
ISqrtFrom(n, x) ==
    LET y == (x + n \div x) \div 2
    IN  IF y >= x THEN x ELSE ISqrtFrom(n, y)

ISqrt(n) == IF n = 0 THEN 0 ELSE ISqrtFrom(n, n)

\* Math.sqrt in units of 1/ONE; exact when the operand is a square, which it
\* is for every vector the specifications draw
Sqrt(a) == ISqrt(a) * SqrtOne

Max(a, b) == IF a >= b THEN a ELSE b

Min(a, b) == IF a <= b THEN a ELSE b

(***************************************************************************)
(* Item ids, link types and the inputs the specifications draw.            *)
(***************************************************************************)
Node == {"x", "y", "z"}

ChainLinkType == {"related", "parent", "child", "sequential", "causal", "reference"}

\* strengths 0.4 and 0.9: one below and one above the thresholds that are used
Strengths == {4000, 9000}

\* the (linkType, strength) pairs the graph specification passes to addLink
AddLinkInputs == {<<"related", 4000>>, <<"parent", 9000>>, <<"child", 4000>>}

\* the number of addLink calls (clock ticks) of the graph specification
MaxClock == 2

(***************************************************************************)
(* The persisted relationship index, chain-index.json: a document mapping  *)
(* a node id to its list of outgoing links.  A key that is absent and a    *)
(* key holding the empty list are read alike (index.get(id) || []), so the *)
(* document is a function on Node.  metadata is passed through unread and  *)
(* is left out.  The file is [status, data]: status is "missing" (no       *)
(* file), "ok" (the file parses to the document data) or "corrupt" (the    *)
(* file does not parse; data is the document it held before the damage).   *)
(***************************************************************************)
EmptyIndex == [n \in Node |-> <<>>]

\* a plausible slip: a write that starts from an empty Map, the stored
\* document unread
loadIndexFresh(file) == EmptyIndex

\* a plausible slip: the document used without the try around JSON.parse
loadIndexUnguarded(file) == file.data

\* an empty Map when the file does not exist and when reading or parsing it
\* throws
loadIndex(file) == IF file.status = "ok" THEN file.data ELSE EmptyIndex

saveIndex(index) == [status |-> "ok", data |-> index]

\* a plausible slip: the mirror stored under the forward type
getReverseTypeSame(linkType) == linkType

getReverseType(linkType) ==
    CASE linkType = "parent" -> "child"
      [] linkType = "child" -> "parent"
      [] OTHER -> linkType

HasLinkTo(links, toId) == \E i \in DOMAIN links : links[i].toId = toId

\* a plausible slip: an upsert, the stored link replaced by the new one
PushOrReplace(index, link) ==
    IF ~HasLinkTo(index[link.fromId], link.toId)
    THEN [index EXCEPT ![link.fromId] = Append(@, link)]
    ELSE [index EXCEPT ![link.fromId] =
             [i \in DOMAIN @ |-> IF @[i].toId = link.toId THEN link ELSE @[i]]]

\* a plausible slip: the push without the check for a stored link
PushAlways(index, link) == [index EXCEPT ![link.fromId] = Append(@, link)]

\* the push of addLink: only when the list holds no link to link.toId yet
PushIfAbsent(index, link) ==
    IF ~HasLinkTo(index[link.fromId], link.toId)
    THEN [index EXCEPT ![link.fromId] = Append(@, link)]
    ELSE index

\* addLink on a loaded index; t is the value of Date.now()
addLink(index, fromId, toId, linkType, strength, t) ==
    LET forwardLink == [fromId |-> fromId, toId |-> toId, linkType |-> linkType,
                        strength |-> strength, createdAt |-> t]
        reverseLink == [fromId |-> toId, toId |-> fromId,
                        linkType |-> getReverseType(linkType),
                        strength |-> strength, createdAt |-> t]
    IN  PushIfAbsent(PushIfAbsent(index, forwardLink), reverseLink)

getLinks(file, entryId) == loadIndex(file)[entryId]

FilterOut(links, toId) == SelectSeq(links, LAMBDA l : l.toId # toId)

\* a plausible slip: removeLink dropping the mirrored link as well
removeLinkBoth(file, fromId, toId) ==
    LET index == loadIndex(file)
        links == index[fromId]
        filtered == FilterOut(links, toId)
    IN  IF Len(filtered) < Len(links)
        THEN [file |-> saveIndex([n \in Node |->
                          IF n = fromId THEN filtered
                          ELSE IF n = toId THEN FilterOut(index[n], fromId)
                          ELSE index[n]]),
              saved |-> TRUE]
        ELSE [file |-> file, saved |-> FALSE]

\* removeLink: the file after the call, and whether saveIndex ran; the file is
\* written only when a link was dropped
removeLink(file, fromId, toId) ==
    LET index == loadIndex(file)
        links == index[fromId]
        filtered == FilterOut(links, toId)
    IN  IF Len(filtered) < Len(links)
        THEN [file |-> saveIndex([index EXCEPT ![fromId] = filtered]), saved |-> TRUE]
        ELSE [file |-> file, saved |-> FALSE]

(***************************************************************************)
(* Operations of the graph store.  lastOp records the call that ran last,  *)
(* whether it wrote the file and whether the forward and the mirror link   *)
(* were stored before it.  traverseChain is synchronous, so no call of the *)
(* store runs between two iterations of its loop.                          *)
(***************************************************************************)
Idle == [pc |-> "idle"]

NoOutput == [pc |-> "none"]

AddLink(fromId, toId, linkType, strength) ==
    /\ trav.pc # "loop"
    /\ indexFile' = saveIndex(addLink(loadIndex(indexFile), fromId, toId,
                                      linkType, strength, now))
    /\ now' = now + 1
    /\ lastOp' = [op |-> "addLink", fromId |-> fromId, toId |-> toId,
                  linkType |-> linkType, strength |-> strength, saved |-> TRUE,
                  hadForward |-> HasLinkTo(getLinks(indexFile, fromId), toId),
                  hadReverse |-> HasLinkTo(getLinks(indexFile, toId), fromId)]
    /\ UNCHANGED <<trav, vectorFiles, config, out, writers, nw>>

RemoveLink(fromId, toId) ==
    /\ trav.pc # "loop"
    /\ indexFile' = removeLink(indexFile, fromId, toId).file
    /\ lastOp' = [op |-> "removeLink", fromId |-> fromId, toId |-> toId,
                  linkType |-> "none", strength |-> 0,
                  saved |-> removeLink(indexFile, fromId, toId).saved,
                  hadForward |-> HasLinkTo(getLinks(indexFile, fromId), toId),
                  hadReverse |-> HasLinkTo(getLinks(indexFile, toId), fromId)]
    /\ UNCHANGED <<now, trav, vectorFiles, config, out, writers, nw>>

(***************************************************************************)
(* Writers in separate processes on one memory directory.  A call of       *)
(* addLink or removeLink is two steps, between which the other process may *)
(* run: loadIndex, and then the change of the loaded index and saveIndex.  *)
(* writers[w] is the call of process w:                                    *)
(*   pc          "idle", "loaded" (between the steps) or "done"            *)
(*   op, fromId, toId, linkType, strength   the call and its arguments     *)
(*   index       the Map that loadIndex returned                           *)
(*   concurrent  whether the call loaded while another was between its     *)
(*               steps, and order, the position of its second step among   *)
(*               the second steps (both kept for the properties only)      *)
(***************************************************************************)
Writer == {1, 2}

NotCalled == [pc |-> "idle"]

Loaded(w) == writers[w].pc = "loaded"

Done(w) == writers[w].pc = "done"

\* the first step: const index = this.loadIndex()
WriterLoad(w, op, fromId, toId, linkType, strength) ==
    /\ writers[w].pc = "idle"
    /\ writers' = [writers EXCEPT ![w] =
                      [pc |-> "loaded", op |-> op, fromId |-> fromId, toId |-> toId,
                       linkType |-> linkType, strength |-> strength,
                       index |-> loadIndex(indexFile),
                       concurrent |-> \E v \in Writer \ {w} : Loaded(v),
                       order |-> 0]]
    /\ UNCHANGED <<indexFile, now, lastOp, trav, vectorFiles, config, out, nw>>

\* the second step: the rest of addLink or removeLink on the loaded Map.
\* removeLink writes the file only when it dropped a link.
WriterSave(w) ==
    /\ Loaded(w)
    /\ LET call == writers[w]
           removed == removeLink(saveIndex(call.index), call.fromId, call.toId)
       IN  indexFile' =
              IF call.op = "addLink"
              THEN saveIndex(addLink(call.index, call.fromId, call.toId,
                                     call.linkType, call.strength, now))
              ELSE IF removed.saved THEN removed.file ELSE indexFile
    /\ writers' = [writers EXCEPT ![w].pc = "done",
                                  ![w].order = 1 + Cardinality({v \in Writer : Done(v)})]
    /\ UNCHANGED <<now, lastOp, trav, vectorFiles, config, out, nw>>

(***************************************************************************)
(* traverseChain: breadth-first search with a visited set and a FIFO       *)
(* frontier of (id, hops, path).  A traversal is the record                *)
(*   index, startId, maxHops, minStrength   the loaded index and arguments  *)
(*   queue, visited, results                the locals of the loop          *)
(*   expanded                               the nodes whose links the loop  *)
(*                                          has iterated, in order (kept    *)
(*                                          for the properties only)        *)
(*   dequeued                               the (id, hops) of the entries   *)
(*                                          that were dequeued unvisited,   *)
(*                                          in order (kept for the          *)
(*                                          properties only)                *)
(* A path is the sequence of ids that the code joins with " -> ".          *)
(***************************************************************************)
TraverseInit(index, startId, maxHops, minStrength) ==
    [pc |-> "loop", index |-> index, startId |-> startId, maxHops |-> maxHops,
     minStrength |-> minStrength,
     queue |-> <<[id |-> startId, hops |-> 0, path |-> <<startId>>]>>,
     visited |-> {}, results |-> <<>>, expanded |-> <<>>, dequeued |-> <<>>]

\* a plausible slip: a dequeued node is never taken as visited
AlreadyVisitedNever(visited, id) == FALSE

\* line 129: if (visited.has(current.id)) continue
AlreadyVisited(visited, id) == id \in visited

\* a plausible slip: > for >= in the hop bound
HopLimitReachedLate(hops, maxHops) == hops > maxHops

\* line 132: if (current.hops >= maxHops) continue
HopLimitReached(hops, maxHops) == hops >= maxHops

\* a plausible slip: the strength threshold left out
BelowMinStrengthNever(strength, minStrength) == FALSE

\* line 136: if (link.strength < minStrength) continue
BelowMinStrength(strength, minStrength) == strength < minStrength

\* a plausible slip: the check of the link target left to the dequeue
TargetVisitedNever(visited, toId) == FALSE

\* line 137: if (visited.has(link.toId)) continue
TargetVisited(visited, toId) == toId \in visited

\* a plausible slip: the head of the queue read and left in the queue
ShiftNone(queue) == queue

\* the queue after queue.shift()
Shift(queue) == Tail(queue)

\* a plausible slip: queue.unshift for queue.push, the frontier as a stack
EnqueueFront(queue, pushed) == pushed \o queue

\* the queue after the queue.push calls of one iteration
Enqueue(queue, pushed) == queue \o pushed

\* a plausible slip: a result only for the first link that reaches a node
TraverseIterFirstOnly(t) ==
    LET current == Head(t.queue)
        rest == Shift(t.queue)
        visited1 == t.visited \cup {current.id}
        links == t.index[current.id]
        kept == SelectSeq(links, LAMBDA l : ~BelowMinStrength(l.strength, t.minStrength)
                                            /\ ~TargetVisited(visited1, l.toId))
        fresh == SelectSeq(kept, LAMBDA l :
                              \A i \in DOMAIN t.results : t.results[i].id # l.toId)
        emitted == [i \in DOMAIN fresh |->
                      [id |-> fresh[i].toId,
                       path |-> Append(current.path, fresh[i].toId),
                       linkType |-> fresh[i].linkType,
                       linkStrength |-> fresh[i].strength,
                       hopDistance |-> current.hops + 1,
                       discoveredAt |-> fresh[i].createdAt]]
        pushed == [i \in DOMAIN kept |->
                      [id |-> kept[i].toId, hops |-> current.hops + 1,
                       path |-> Append(current.path, kept[i].toId)]]
    IN  IF AlreadyVisited(t.visited, current.id)
        THEN [t EXCEPT !.queue = rest]
        ELSE IF HopLimitReached(current.hops, t.maxHops)
        THEN [t EXCEPT !.queue = rest, !.visited = visited1,
                       !.dequeued = Append(@, [id |-> current.id, hops |-> current.hops])]
        ELSE [t EXCEPT !.queue = Enqueue(rest, pushed), !.visited = visited1,
                       !.results = @ \o emitted,
                       !.expanded = Append(@, current.id),
                       !.dequeued = Append(@, [id |-> current.id, hops |-> current.hops])]

\* one iteration of the while loop, on a traversal whose queue is not empty
TraverseIter(t) ==
    LET current == Head(t.queue)
        rest == Shift(t.queue)
        visited1 == t.visited \cup {current.id}
        links == t.index[current.id]
        kept == SelectSeq(links, LAMBDA l : ~BelowMinStrength(l.strength, t.minStrength)
                                            /\ ~TargetVisited(visited1, l.toId))
        emitted == [i \in DOMAIN kept |->
                      [id |-> kept[i].toId,
                       path |-> Append(current.path, kept[i].toId),
                       linkType |-> kept[i].linkType,
                       linkStrength |-> kept[i].strength,
                       hopDistance |-> current.hops + 1,
                       discoveredAt |-> kept[i].createdAt]]
        pushed == [i \in DOMAIN kept |->
                      [id |-> kept[i].toId, hops |-> current.hops + 1,
                       path |-> Append(current.path, kept[i].toId)]]
    IN  IF AlreadyVisited(t.visited, current.id)
        THEN [t EXCEPT !.queue = rest]
        ELSE IF HopLimitReached(current.hops, t.maxHops)
        THEN [t EXCEPT !.queue = rest, !.visited = visited1,
                       !.dequeued = Append(@, [id |-> current.id, hops |-> current.hops])]
        ELSE [t EXCEPT !.queue = Enqueue(rest, pushed), !.visited = visited1,
                       !.results = @ \o emitted,
                       !.expanded = Append(@, current.id),
                       !.dequeued = Append(@, [id |-> current.id, hops |-> current.hops])]

RECURSIVE TraverseRun(_)
TraverseRun(t) == IF t.queue = <<>> THEN t ELSE TraverseRun(TraverseIter(t))

\* traverseChain as a function of the loaded index: the results of the loop
traverseChain(index, startId, maxHops, minStrength) ==
    TraverseRun(TraverseInit(index, startId, maxHops, minStrength)).results

\* findRelated: linkTypes is a list, empty when the option is omitted
findRelated(index, entryId, maxHops, minStrength, linkTypes) ==
    LET results == traverseChain(index, entryId, maxHops, minStrength)
    IN  IF Len(linkTypes) > 0
        THEN SelectSeq(results, LAMBDA r : \E i \in DOMAIN linkTypes : linkTypes[i] = r.linkType)
        ELSE results

\* the reading calls of the graph store as single steps; out holds the
\* arguments and the returned list
GetLinks(entryId) ==
    /\ out' = [pc |-> "links", entryId |-> entryId, value |-> getLinks(indexFile, entryId)]
    /\ UNCHANGED <<indexFile, now, lastOp, trav, vectorFiles, config, writers, nw>>

TraverseChain(startId, maxHops, minStrength) ==
    /\ out' = [pc |-> "traversed", entryId |-> startId,
               value |-> traverseChain(loadIndex(indexFile), startId, maxHops, minStrength)]
    /\ UNCHANGED <<indexFile, now, lastOp, trav, vectorFiles, config, writers, nw>>

FindRelated(entryId, maxHops, minStrength, linkTypes) ==
    /\ out' = [pc |-> "related", entryId |-> entryId,
               value |-> findRelated(loadIndex(indexFile), entryId, maxHops,
                                     minStrength, linkTypes)]
    /\ UNCHANGED <<indexFile, now, lastOp, trav, vectorFiles, config, writers, nw>>

\* the environment: the index file is damaged and no longer parses
DamageIndex ==
    /\ indexFile.status = "ok"
    /\ indexFile' = [indexFile EXCEPT !.status = "corrupt"]
    /\ UNCHANGED <<now, lastOp, trav, vectorFiles, config, out, writers, nw>>

\* the call: loadIndex and the locals before the first iteration
TraverseStart(startId, maxHops, minStrength) ==
    /\ trav.pc # "loop"
    /\ trav' = TraverseInit(loadIndex(indexFile), startId, maxHops, minStrength)
    /\ UNCHANGED <<indexFile, now, lastOp, vectorFiles, config, out, writers, nw>>

\* while (queue.length > 0): one iteration
TraverseStep ==
    /\ trav.pc = "loop"
    /\ trav.queue # <<>>
    /\ trav' = TraverseIter(trav)
    /\ UNCHANGED <<indexFile, now, lastOp, vectorFiles, config, out, writers, nw>>

\* the loop ends on the empty queue and the results are returned
TraverseReturn ==
    /\ trav.pc = "loop"
    /\ trav.queue = <<>>
    /\ trav' = [trav EXCEPT !.pc = "done"]
    /\ UNCHANGED <<indexFile, now, lastOp, vectorFiles, config, out, writers, nw>>

(***************************************************************************)
(* VectorStore.  vectorFiles maps a week number to week-N.vectors.jsonl:   *)
(* whether the file exists, and its non-empty lines.  A line is            *)
(* [ok, entry]: ok is whether JSON.parse succeeds on it.  An entry is      *)
(* [id, vector, weekNumber, sourceId]; the timestamp string is stored and  *)
(* never read, and is left out.  Vector components are numbers in units of *)
(* 1/ONE.                                                                  *)
(***************************************************************************)
Weeks == {1, 2}

\* the constructor argument `dimensions` (768 by default); the vectors of this
\* model are written by their first Dimensions coordinates
Dimensions == 2

RECURSIVE SumSeq(_)
SumSeq(f) == IF f = <<>> THEN 0 ELSE Head(f) + SumSeq(Tail(f))

RECURSIVE Concat(_)
Concat(seqs) == IF seqs = <<>> THEN <<>> ELSE Head(seqs) \o Concat(Tail(seqs))

NoFile == [exists |-> FALSE, lines |-> <<>>]

\* fs.appendFileSync: the file is created when it does not exist
appendFileSync(files, weekNumber, line) ==
    [files EXCEPT ![weekNumber] = [exists |-> TRUE, lines |-> Append(@.lines, line)]]

saveVector(files, entryId, vector, weekNumber, sourceId) ==
    appendFileSync(files, weekNumber,
                   [ok |-> TRUE,
                    entry |-> [id |-> entryId, vector |-> vector,
                               weekNumber |-> weekNumber, sourceId |-> sourceId]])

\* a line that JSON.parse rejects; its entry is never read
MalformedLine ==
    [ok |-> FALSE,
     entry |-> [id |-> "", vector |-> <<>>, weekNumber |-> 0, sourceId |-> ""]]

\* a plausible slip: the try around the loop over the lines, so that a line
\* that does not parse ends the reading of its file
ReadFileUntilMalformed(lines) ==
    LET bad == {i \in DOMAIN lines : ~lines[i].ok}
        upto == IF bad = {} THEN Len(lines)
                ELSE (CHOOSE i \in bad : \A j \in bad : i <= j) - 1
        good == SelectSeq(SubSeq(lines, 1, upto),
                          LAMBDA l : Len(l.entry.vector) = Dimensions)
    IN  [i \in DOMAIN good |-> good[i].entry]

\* the loop over the lines of one file: a line is pushed when it parses and
\* holds a vector of the configured length, and is skipped otherwise
ReadFile(lines) ==
    LET good == SelectSeq(lines, LAMBDA l : l.ok /\ Len(l.entry.vector) = Dimensions)
    IN  [i \in DOMAIN good |-> good[i].entry]

\* the order of the file names: week-1 before week-2
AllWeeks == <<1, 2>>

\* fs.readdirSync(vectorDir): the files that exist
readdirSync(files) == SelectSeq(AllWeeks, LAMBDA w : files[w].exists)

\* weekNumbers is a list of weeks; the empty list stands for an omitted or
\* empty argument, which reads every file of the directory.  A listed week is
\* read only if (fs.existsSync(vectorPath)).
loadVectors(files, weekNumbers) ==
    IF Len(weekNumbers) > 0
    THEN Concat([i \in DOMAIN weekNumbers |->
                    IF files[weekNumbers[i]].exists
                    THEN ReadFile(files[weekNumbers[i]].lines)
                    ELSE <<>>])
    ELSE LET listed == readdirSync(files)
         IN  Concat([i \in DOMAIN listed |-> ReadFile(files[listed[i]].lines)])

\* a plausible slip: equal vectors taken as similarity 1 before the norms
\* are looked at
cosineSimilarityEqualFirst(a, b) ==
    IF Len(a) # Len(b) THEN 0
    ELSE IF a = b THEN ONE
    ELSE LET dot == SumSeq([i \in DOMAIN a |-> Mul(a[i], b[i])])
             normA == SumSeq([i \in DOMAIN a |-> Mul(a[i], a[i])])
             normB == SumSeq([i \in DOMAIN a |-> Mul(b[i], b[i])])
             denom == Mul(Sqrt(normA), Sqrt(normB))
         IN  IF denom = 0 THEN 0 ELSE Div(dot, denom)

cosineSimilarity(a, b) ==
    IF Len(a) # Len(b) THEN 0
    ELSE LET dot == SumSeq([i \in DOMAIN a |-> Mul(a[i], b[i])])
             normA == SumSeq([i \in DOMAIN a |-> Mul(a[i], a[i])])
             normB == SumSeq([i \in DOMAIN a |-> Mul(b[i], b[i])])
             denom == Mul(Sqrt(normA), Sqrt(normB))
         IN  IF denom = 0 THEN 0 ELSE Div(dot, denom)

normalizeVector(vector) ==
    LET norm == Sqrt(SumSeq([i \in DOMAIN vector |-> Mul(vector[i], vector[i])]))
    IN  IF norm = 0 THEN vector ELSE [i \in DOMAIN vector |-> Div(vector[i], norm)]

\* Array.prototype.sort with a comparator (a, b) => key(b) - key(a): stable and
\* descending.  keys[i] is the key of seq[i]; the positions are sorted by
\* insertion, an element going behind the elements whose key is not smaller.
RECURSIVE InsertDesc(_, _, _)
InsertDesc(sorted, i, keys) ==
    IF sorted = <<>> THEN <<i>>
    ELSE IF keys[Head(sorted)] >= keys[i]
         THEN <<Head(sorted)>> \o InsertDesc(Tail(sorted), i, keys)
         ELSE <<i>> \o sorted

RECURSIVE SortedPositions(_, _)
SortedPositions(n, keys) ==
    IF n = 0 THEN <<>> ELSE InsertDesc(SortedPositions(n - 1, keys), n, keys)

\* a plausible slip: the sort left out, the results in stored order
SortNone(seq, keys) == seq

SortDesc(seq, keys) ==
    LET pos == SortedPositions(Len(seq), keys) IN [i \in DOMAIN seq |-> seq[pos[i]]]

\* a plausible slip: the slice left out
SliceAll(seq, end) == seq

\* Array.prototype.slice(0, end)
Slice0(seq, end) ==
    LET e == IF end < 0 THEN Max(Len(seq) + end, 0) ELSE Min(end, Len(seq))
    IN  SubSeq(seq, 1, e)

search(files, queryVector, k, weekNumbers) ==
    LET vectors == loadVectors(files, weekNumbers)
        normalizedQuery == normalizeVector(queryVector)
        all == [i \in DOMAIN vectors |->
                  [id |-> vectors[i].id,
                   score |-> cosineSimilarity(normalizedQuery,
                                              normalizeVector(vectors[i].vector)),
                   sourceId |-> vectors[i].sourceId,
                   weekNumber |-> vectors[i].weekNumber]]
        results == SelectSeq(all, LAMBDA r : r.score > 0)
    IN  Slice0(SortDesc(results, [i \in DOMAIN results |-> results[i].score]), k)

SaveVector(entryId, vector, weekNumber, sourceId) ==
    /\ vectorFiles' = saveVector(vectorFiles, entryId, vector, weekNumber, sourceId)
    /\ UNCHANGED <<indexFile, now, lastOp, trav, config, out, writers, nw>>

\* the environment: a line that does not parse reaches a file (an append cut
\* short, an edit by hand)
WriteMalformedLine(weekNumber) ==
    /\ vectorFiles' = appendFileSync(vectorFiles, weekNumber, MalformedLine)
    /\ UNCHANGED <<indexFile, now, lastOp, trav, config, out, writers, nw>>

\* the calls that read the vector store; out holds the arguments and the
\* returned value of the call
LoadVectors(weekNumbers) ==
    /\ out' = [pc |-> "loaded", weekNumbers |-> weekNumbers,
               entries |-> loadVectors(vectorFiles, weekNumbers)]
    /\ UNCHANGED <<indexFile, now, lastOp, trav, vectorFiles, config, writers, nw>>

Search(queryVector, k, weekNumbers) ==
    /\ out' = [pc |-> "searched", queryVector |-> queryVector, k |-> k,
               weekNumbers |-> weekNumbers,
               results |-> search(vectorFiles, queryVector, k, weekNumbers)]
    /\ UNCHANGED <<indexFile, now, lastOp, trav, vectorFiles, config, writers, nw>>

CosineSimilarity(a, b) ==
    /\ out' = [pc |-> "similarity", a |-> a, b |-> b, value |-> cosineSimilarity(a, b)]
    /\ UNCHANGED <<indexFile, now, lastOp, trav, vectorFiles, config, writers, nw>>

NormalizeVector(vector) ==
    /\ out' = [pc |-> "normalized", vector |-> vector, value |-> normalizeVector(vector)]
    /\ UNCHANGED <<indexFile, now, lastOp, trav, vectorFiles, config, writers, nw>>

(***************************************************************************)
(* HybridRetrieval.                                                        *)
(***************************************************************************)
DEFAULT_HYBRID_CONFIG ==
    [enabled |-> TRUE, vectorWeight |-> 7000, chainWeight |-> 3000,
     recencyBoost |-> TRUE, recencyHalfLifeHours |-> 24, maxHops |-> 2,
     minLinkStrength |-> 3000, maxChainCandidates |-> 50,
     vectorCandidateMultiplier |-> 3]

MsPerHour == 1000 * 60 * 60

\* Math.pow(0.5, n) for a whole n >= 0
RECURSIVE HalfPow(_)
HalfPow(n) == IF n <= 0 THEN ONE ELSE HalfPow(n - 1) \div 2

\* a plausible slip: a half-life that carries no decay scored 0 instead of 1
calculateRecencyScoreZeroGuard(timestamp, referenceTime, halfLifeHours) ==
    IF halfLifeHours <= 0 THEN 0
    ELSE LET age == referenceTime - timestamp
             decay == IF age <= 0 THEN ONE
                      ELSE HalfPow(age \div (MsPerHour * halfLifeHours))
         IN  Max(0, Min(ONE, decay))

\* timestamps in milliseconds.  The decay 2^(-age/halfLife) is 1 at age 0 and
\* above 1 (clamped to 1) for a negative age; for a positive age it is taken
\* at whole half-lives.
calculateRecencyScore(timestamp, referenceTime, halfLifeHours) ==
    IF halfLifeHours <= 0 THEN ONE
    ELSE LET age == referenceTime - timestamp
             decay == IF age <= 0 THEN ONE
                      ELSE HalfPow(age \div (MsPerHour * halfLifeHours))
         IN  Max(0, Min(ONE, decay))

calculateChainScore(linkStrength, hopDistance) ==
    IF hopDistance <= 0 THEN linkStrength
    ELSE Mul(linkStrength, HalfPow(hopDistance - 1))

\* a plausible slip: vectorWeight applied to the base score
calculateHybridScoreWeighted(params) ==
    LET baseScore == Mul(params.vectorWeight, params.vectorScore)
        chainBoost == IF params.linkStrength > 0
                      THEN ONE + Mul(params.chainWeight, params.linkStrength)
                      ELSE ONE
    IN  Mul(Mul(baseScore, chainBoost), params.recencyScore)

\* a plausible slip: the weighted blend that the names of the two weights
\* suggest
calculateHybridScoreBlended(params) ==
    Mul(Mul(params.vectorWeight, params.vectorScore)
          + Mul(params.chainWeight, params.linkStrength),
        params.recencyScore)

calculateHybridScore(params) ==
    LET baseScore == params.vectorScore
        chainBoost == IF params.linkStrength > 0
                      THEN ONE + Mul(params.chainWeight, params.linkStrength)
                      ELSE ONE
    IN  Mul(Mul(baseScore, chainBoost), params.recencyScore)

\* an option of retrieve: given is whether the caller supplied it
Omitted == [given |-> FALSE, value |-> 0]

Given(v) == [given |-> TRUE, value |-> v]

\* opts.x || d: the default also replaces a supplied 0
OrDefault(opt, d) == IF opt.given /\ opt.value # 0 THEN opt.value ELSE d

\* the Map `merged`, in insertion order: a sequence of entries with distinct
\* ids.  linkType "none" and hopDistance 0 stand for an absent field.
PositionOf(merged, id) ==
    IF \E i \in DOMAIN merged : merged[i].id = id
    THEN CHOOSE i \in DOMAIN merged : merged[i].id = id
    ELSE 0

\* merged.set(entry.id, entry)
MapSet(merged, entry) ==
    LET i == PositionOf(merged, entry.id)
    IN  IF i = 0 THEN Append(merged, entry) ELSE [merged EXCEPT ![i] = entry]

FromVector(v) ==
    [id |-> v.id, sourceId |-> v.sourceId, vectorScore |-> v.score,
     chainScore |-> 0, linkStrength |-> 0, recencyScore |-> ONE,
     hybridScore |-> v.score, linkType |-> "none", hopDistance |-> 0]

RECURSIVE MergeVectorResults(_, _)
MergeVectorResults(merged, vectorResults) ==
    IF vectorResults = <<>> THEN merged
    ELSE MergeVectorResults(MapSet(merged, FromVector(Head(vectorResults))),
                            Tail(vectorResults))

\* a plausible slip: the merged-in chain result overwrites the stored scores
MergeChainResultOverwrite(merged, c) ==
    LET i == PositionOf(merged, c.id)
        chainScore == calculateChainScore(c.linkStrength, c.hopDistance)
    IN  IF i # 0
        THEN [merged EXCEPT ![i] =
                [@ EXCEPT !.chainScore = chainScore,
                          !.linkStrength = c.linkStrength,
                          !.linkType = c.linkType,
                          !.hopDistance = c.hopDistance]]
        ELSE Append(merged,
                [id |-> c.id, sourceId |-> c.id, vectorScore |-> 0,
                 chainScore |-> chainScore, linkStrength |-> c.linkStrength,
                 recencyScore |-> ONE, hybridScore |-> Mul(chainScore, ONE \div 2),
                 linkType |-> c.linkType, hopDistance |-> c.hopDistance])

\* the body of the loop "Enrich with chain results"
MergeChainResult(merged, c) ==
    LET i == PositionOf(merged, c.id)
        chainScore == calculateChainScore(c.linkStrength, c.hopDistance)
    IN  IF i # 0
        THEN [merged EXCEPT ![i] =
                [@ EXCEPT !.chainScore = Max(@, chainScore),
                          !.linkStrength = Max(@, c.linkStrength),
                          !.linkType = c.linkType,
                          !.hopDistance = c.hopDistance]]
        ELSE Append(merged,
                [id |-> c.id, sourceId |-> c.id, vectorScore |-> 0,
                 chainScore |-> chainScore, linkStrength |-> c.linkStrength,
                 recencyScore |-> ONE, hybridScore |-> Mul(chainScore, ONE \div 2),
                 linkType |-> c.linkType, hopDistance |-> c.hopDistance])

RECURSIVE MergeChainResults(_, _)
MergeChainResults(merged, chainResults) ==
    IF chainResults = <<>> THEN merged
    ELSE MergeChainResults(MergeChainResult(merged, Head(chainResults)),
                           Tail(chainResults))

\* a plausible slip: step 4 run only on the candidates of vector search, a
\* candidate of the graph alone keeping the score set at insertion
FinalScoreVectorOnly(entry, cfg, t) ==
    LET e1 == IF cfg.recencyBoost
              THEN [entry EXCEPT !.recencyScore =
                       calculateRecencyScore(t, t, cfg.recencyHalfLifeHours)]
              ELSE entry
    IN  IF entry.vectorScore = 0 THEN entry
        ELSE [e1 EXCEPT !.hybridScore =
                 calculateHybridScore([vectorScore |-> e1.vectorScore,
                                       linkStrength |-> e1.linkStrength,
                                       recencyScore |-> e1.recencyScore,
                                       vectorWeight |-> cfg.vectorWeight,
                                       chainWeight |-> cfg.chainWeight])]

\* Step 4, for one entry of the map
FinalScore(entry, cfg, t) ==
    LET e1 == IF cfg.recencyBoost
              THEN [entry EXCEPT !.recencyScore =
                       calculateRecencyScore(t, t, cfg.recencyHalfLifeHours)]
              ELSE entry
    IN  [e1 EXCEPT !.hybridScore =
            calculateHybridScore([vectorScore |-> e1.vectorScore,
                                  linkStrength |-> e1.linkStrength,
                                  recencyScore |-> e1.recencyScore,
                                  vectorWeight |-> cfg.vectorWeight,
                                  chainWeight |-> cfg.chainWeight])]

\* a plausible slip: the filter left out
AtLeastMinScoreAll(results, minScore) == results

\* results.filter(r => r.hybridScore >= minScore)
AtLeastMinScore(results, minScore) ==
    SelectSeq(results, LAMBDA r : r.hybridScore >= minScore)

\* retrieve: the locals of the call and the returned list (results).  t is the
\* value of Date.now(); weekNumbers is <<>> when the option is omitted.
retrieve(index, files, cfg, t, queryVector, seedIds, maxResultsOpt, minScoreOpt, weekNumbers) ==
    LET maxResults == OrDefault(maxResultsOpt, 10)
        minScore == OrDefault(minScoreOpt, 3000)
        vectorCandidatesLimit == maxResults * cfg.vectorCandidateMultiplier
        vectorResults == search(files, queryVector, vectorCandidatesLimit, weekNumbers)
        chainResults == Concat([i \in DOMAIN seedIds |->
                           traverseChain(index, seedIds[i], cfg.maxHops,
                                         cfg.minLinkStrength)])
        merged == MergeChainResults(MergeVectorResults(<<>>, vectorResults),
                                    chainResults)
        scored == [i \in DOMAIN merged |-> FinalScore(merged[i], cfg, t)]
        filtered == AtLeastMinScore(scored, minScore)
        sorted == SortDesc(filtered, [i \in DOMAIN filtered |-> filtered[i].hybridScore])
    IN  [pc |-> "returned", queryVector |-> queryVector, seedIds |-> seedIds,
         maxResults |-> maxResultsOpt, minScore |-> minScoreOpt,
         vectorResults |-> vectorResults, chainResults |-> chainResults,
         scored |-> scored, results |-> Slice0(sorted, maxResults)]

\* new HybridRetrieval(memoryDir, config): the given fields over the defaults
HybridRetrieval(partial) ==
    [f \in DOMAIN DEFAULT_HYBRID_CONFIG |->
        IF f \in DOMAIN partial THEN partial[f] ELSE DEFAULT_HYBRID_CONFIG[f]]

Construct(partial) ==
    /\ config' = HybridRetrieval(partial)
    /\ UNCHANGED <<indexFile, now, lastOp, trav, vectorFiles, out, writers, nw>>

Retrieve(queryVector, seedIds, maxResultsOpt, minScoreOpt, weekNumbers) ==
    /\ out' = retrieve(loadIndex(indexFile), vectorFiles, config, now,
                       queryVector, seedIds, maxResultsOpt, minScoreOpt, weekNumbers)
    /\ UNCHANGED <<indexFile, now, lastOp, trav, vectorFiles, config, writers, nw>>

(***************************************************************************)
(* NeuronWaves.  nw is the call of the NeuronWaves package in progress or  *)
(* returned: a call of one of the two policy gates, or a run of one of the *)
(* two loops.  An optional field that is left out holds undefined.         *)
(***************************************************************************)
NotStarted == [pc |-> "none"]

undefined == "<undefined>"

\* !value of an optional string: undefined and "" are falsy
Falsy(value) == value = undefined \/ value = ""

ActionClass ==
    {"local_read", "local_write", "external_read", "external_write_reversible",
     "external_write_irreversible", "external_comms", "money_movement",
     "identity_security_sensitive"}

(***************************************************************************)
(* The policy gate of the autonomy configuration: decidePolicy(input,      *)
(* stats).  The lists of the configuration are read by includes and by     *)
(* length === 0 only, and are sets here.  limits may lack                  *)
(* maxExternalPerRun and maxIrreversiblePerRun (AutonomyLimits declares    *)
(* two fields only); a comparison with undefined is false.  A decision is  *)
(* [decision, reasons]; a reason is <<message, subject>>.                  *)
(***************************************************************************)
EXTERNAL_CLASSES ==
    {"external_read", "external_write_reversible", "external_write_irreversible",
     "external_comms", "money_movement", "identity_security_sensitive"}

IRREVERSIBLE_CLASSES ==
    {"external_write_irreversible", "money_movement", "identity_security_sensitive"}

isDenied(cfg, actionClass, toolName, targetDomain) ==
    (IF actionClass \in cfg.deny.actions THEN << <<"denied by denylist", "action">> >> ELSE <<>>)
    \o (IF ~Falsy(toolName) /\ toolName \in cfg.deny.tools
        THEN << <<"denied by denylist", "tool">> >> ELSE <<>>)
    \o (IF ~Falsy(targetDomain) /\ targetDomain \in cfg.deny.domains
        THEN << <<"denied by denylist", "domain">> >> ELSE <<>>)

allowlistCheck(list, value, label) ==
    IF list = {} THEN << <<"allowlist is empty", label>> >>
    ELSE IF Falsy(value) THEN << <<"missing for allowlist validation", label>> >>
    ELSE IF value \notin list THEN << <<"not allowlisted", label>> >>
    ELSE <<>>

\* a plausible slip: > for >= in the first limit check
ActionsLimitPassed(stats, limits) ==
    stats.actionsConsidered > limits.maxActionsPerRun

\* stats.actionsConsidered >= autonomy.limits.maxActionsPerRun
ActionsLimitReached(stats, limits) ==
    stats.actionsConsidered >= limits.maxActionsPerRun

ExternalLimitReached(stats, limits) ==
    /\ "maxExternalPerRun" \in DOMAIN limits
    /\ stats.externalCount >= limits.maxExternalPerRun

IrreversibleLimitReached(stats, limits) ==
    /\ "maxIrreversiblePerRun" \in DOMAIN limits
    /\ stats.irreversibleCount >= limits.maxIrreversiblePerRun

\* a plausible slip: the list of level 3 left empty
hardBlockedNone == {}

\* const hardBlocked of decidePolicy
hardBlocked == {"money_movement", "identity_security_sensitive"}

Level2Reasons(autonomy, input) ==
    allowlistCheck(autonomy.allow.tools, input.toolName, "tool")
    \o allowlistCheck(autonomy.allow.domains, input.targetDomain, "domain")
    \o (IF input.actionClass = "external_comms"
        THEN allowlistCheck(autonomy.allow.contacts, input.targetContact, "contact")
             \o allowlistCheck(autonomy.allow.channels, input.targetChannel, "channel")
        ELSE allowlistCheck(autonomy.allow.folders, input.targetFolder, "folder"))

decidePolicy(input, stats) ==
    LET autonomy == input.autonomy
        actionClass == input.actionClass
        deniedReasons == isDenied(autonomy, actionClass, input.toolName, input.targetDomain)
    IN  IF ActionsLimitReached(stats, autonomy.limits)
        THEN [decision |-> "block", reasons |-> << <<"limit reached", "maxActionsPerRun">> >>]
        ELSE IF actionClass \in EXTERNAL_CLASSES
                /\ ExternalLimitReached(stats, autonomy.limits)
        THEN [decision |-> "block", reasons |-> << <<"limit reached", "maxExternalPerRun">> >>]
        ELSE IF actionClass \in IRREVERSIBLE_CLASSES
                /\ IrreversibleLimitReached(stats, autonomy.limits)
        THEN [decision |-> "block", reasons |-> << <<"limit reached", "maxIrreversiblePerRun">> >>]
        ELSE IF Len(deniedReasons) > 0
        THEN [decision |-> "block", reasons |-> deniedReasons]
        ELSE IF autonomy.level = 1
        THEN IF actionClass \in {"local_read", "local_write"}
             THEN [decision |-> "allow", reasons |-> <<>>]
             ELSE [decision |-> "block", reasons |-> << <<"blocks all external actions", "level 1">> >>]
        ELSE IF autonomy.level = 2
        THEN IF actionClass \in {"local_read", "local_write", "external_read"}
             THEN [decision |-> "allow", reasons |-> <<>>]
             ELSE IF actionClass \in {"external_write_reversible", "external_comms"}
             THEN LET reasons == Level2Reasons(autonomy, input)
                  IN  IF Len(reasons) > 0
                      THEN [decision |-> "block", reasons |-> reasons]
                      ELSE IF autonomy.requireApproval
                      THEN [decision |-> "allow_with_prompt",
                            reasons |-> << <<"requires approval", "level 2">> >>]
                      ELSE [decision |-> "allow", reasons |-> <<>>]
             ELSE [decision |-> "block", reasons |-> << <<"blocks irreversible, money, identity", "level 2">> >>]
        ELSE IF actionClass \in hardBlocked
        THEN [decision |-> "block", reasons |-> << <<"blocks money, identity", "dev mode">> >>]
        ELSE IF autonomy.requireApproval /\ actionClass = "external_write_irreversible"
        THEN [decision |-> "allow_with_prompt",
              reasons |-> << <<"requires approval", "dev mode">> >>]
        ELSE [decision |-> "allow", reasons |-> <<>>]

\* one call of decidePolicy
DecidePolicy(input, stats) ==
    /\ nw' = [pc |-> "decided", input |-> input, stats |-> stats,
              policy |-> decidePolicy(input, stats)]
    /\ UNCHANGED <<indexFile, now, lastOp, trav, vectorFiles, config, out, writers>>

(***************************************************************************)
(* runNeuronWavesLoop(input): the loop that plans from the text, asks      *)
(* decidePolicy for every plan step while it counts the steps that are not *)
(* blocked, and then runs executeStub over the plan.  A text is the        *)
(* sequence of the words of input.text.toLowerCase().  A plan step is      *)
(* [actionClass, toolName, inputs, status, policyReasons]; of inputs, the  *)
(* keys domain, contact, folder and channel are read.  A run is            *)
(*   pc             "policy" (the loop over the plan steps), "execute"     *)
(*                  (executeStub) or "returned"                            *)
(*   autonomy       input.autonomy                                         *)
(*   steps, i       plan.steps and the position of the step that the loop  *)
(*                  in progress takes next                                 *)
(*   stats          the counters that decidePolicy reads                   *)
(*   executedCount, blockedCount   the locals of executeStub               *)
(*   outcome        evaluation.outcome, once returned                      *)
(***************************************************************************)
\* t.includes(phrase), for a phrase of whole words
Includes(t, phrase) ==
    \E i \in 1..(Len(t) - Len(phrase) + 1) :
        SubSeq(t, i, i + Len(phrase) - 1) = phrase

NoInputs ==
    [domain |-> undefined, contact |-> undefined, folder |-> undefined,
     channel |-> undefined]

planFromText(t) ==
    IF Includes(t, <<"search">>) \/ Includes(t, <<"look", "up">>)
    THEN << [actionClass |-> "external_read", toolName |-> "web_search",
             inputs |-> [NoInputs EXCEPT !.domain = "public_web"],
             status |-> "proposed", policyReasons |-> <<>>] >>
    ELSE << [actionClass |-> "local_write", toolName |-> undefined,
             inputs |-> NoInputs,
             status |-> "proposed", policyReasons |-> <<>>] >>

ZeroStats ==
    [actionsConsidered |-> 0, externalCount |-> 0, irreversibleCount |-> 0,
     toolCallsCount |-> 0]

\* const isExternal of runNeuronWavesLoop
isExternal(actionClass) ==
    actionClass \in {"external_read", "external_write_reversible",
                     "external_write_irreversible", "external_comms",
                     "money_movement", "identity_security_sensitive"}

\* const isIrreversible of runNeuronWavesLoop
isIrreversible(actionClass) ==
    actionClass \in {"external_write_irreversible", "money_movement",
                     "identity_security_sensitive"}

\* the counters after a step that is not blocked
Counted(stats, step) ==
    [actionsConsidered |-> stats.actionsConsidered + 1,
     externalCount |-> stats.externalCount + (IF isExternal(step.actionClass) THEN 1 ELSE 0),
     irreversibleCount |->
         stats.irreversibleCount + (IF isIrreversible(step.actionClass) THEN 1 ELSE 0),
     toolCallsCount |-> stats.toolCallsCount + (IF Falsy(step.toolName) THEN 0 ELSE 1)]

PolicyInput(autonomy, step) ==
    [autonomy |-> autonomy, actionClass |-> step.actionClass,
     toolName |-> step.toolName, targetDomain |-> step.inputs.domain,
     targetContact |-> step.inputs.contact, targetFolder |-> step.inputs.folder,
     targetChannel |-> step.inputs.channel]

LoopStart(autonomy, t) ==
    /\ nw.pc = "none"
    /\ nw' = [pc |-> "policy", autonomy |-> autonomy, steps |-> planFromText(t),
              i |-> 1, stats |-> ZeroStats, executedCount |-> 0,
              blockedCount |-> 0, outcome |-> undefined]
    /\ UNCHANGED <<indexFile, now, lastOp, trav, vectorFiles, config, out, writers>>

\* one iteration of for (const step of plan.steps) in runNeuronWavesLoop
LoopPolicyIter ==
    /\ nw.pc = "policy"
    /\ nw.i <= Len(nw.steps)
    /\ LET step == nw.steps[nw.i]
           policy == decidePolicy(PolicyInput(nw.autonomy, step), nw.stats)
           decided == [step EXCEPT !.policyReasons = policy.reasons,
                                   !.status = IF policy.decision = "block"
                                              THEN "blocked" ELSE "allowed"]
       IN  nw' = [nw EXCEPT !.steps[nw.i] = decided,
                            !.stats = IF policy.decision # "block"
                                      THEN Counted(nw.stats, step) ELSE @,
                            !.i = @ + 1]
    /\ UNCHANGED <<indexFile, now, lastOp, trav, vectorFiles, config, out, writers>>

\* the call executeStub(plan, writer, input.autonomy.limits.maxActionsPerRun)
LoopExecuteStub ==
    /\ nw.pc = "policy"
    /\ nw.i > Len(nw.steps)
    /\ nw' = [nw EXCEPT !.pc = "execute", !.i = 1]
    /\ UNCHANGED <<indexFile, now, lastOp, trav, vectorFiles, config, out, writers>>

\* one iteration of for (const step of plan.steps) in executeStub
ExecuteStubIter ==
    /\ nw.pc = "execute"
    /\ nw.i <= Len(nw.steps)
    /\ LET step == nw.steps[nw.i]
           maxActions == nw.autonomy.limits.maxActionsPerRun
       IN  nw' = IF step.status = "blocked"
                 THEN [nw EXCEPT !.blockedCount = @ + 1, !.i = @ + 1]
                 ELSE IF nw.executedCount >= maxActions
                 THEN [nw EXCEPT !.steps[nw.i].status = "skipped", !.i = @ + 1]
                 ELSE [nw EXCEPT !.steps[nw.i].status = "executed",
                                 !.executedCount = @ + 1, !.i = @ + 1]
    /\ UNCHANGED <<indexFile, now, lastOp, trav, vectorFiles, config, out, writers>>

\* the return of executeStub, the evaluation record and the return of the run
LoopReturn ==
    /\ nw.pc = "execute"
    /\ nw.i > Len(nw.steps)
    /\ nw' = [nw EXCEPT !.pc = "returned",
                        !.outcome = IF nw.blockedCount > 0 /\ nw.executedCount = 0
                                    THEN "blocked" ELSE "partial"]
    /\ UNCHANGED <<indexFile, now, lastOp, trav, vectorFiles, config, out, writers>>

(***************************************************************************)
(* The policy gate of the tier configuration: decide(policy, step, stats). *)
(* A policy is a record with tier and, when they are given, allowlists (a  *)
(* record from some action classes to sets of keys) and limits (a record   *)
(* with the caps that are given).  A step is [classification |-> [class,   *)
(* allowlistKey]].  The optional argument stats is the list rest of the    *)
(* arguments after step: empty, or one record with the counts given.       *)
(***************************************************************************)
classifyStep(step) == step.classification.class

\* a plausible slip: every key that is given counts as allowlisted
isAllowlistedAnyKey(policy, actionClass, key) == ~Falsy(key)

isAllowlisted(policy, actionClass, key) ==
    IF Falsy(key) THEN FALSE
    ELSE LET allowlist ==
                 IF "allowlists" \in DOMAIN policy
                    /\ actionClass \in DOMAIN policy.allowlists
                 THEN policy.allowlists[actionClass] ELSE {}
         IN  key \in allowlist

\* stats.<count> ?? 0
CountOr0(stats, count) == IF count \in DOMAIN stats THEN stats[count] ELSE 0

NoDecision == [decision |-> "none"]

\* enforceLimits; NoDecision is the null it returns
enforceLimits(policy, actionClass, rest) ==
    IF "limits" \notin DOMAIN policy \/ rest = <<>> THEN NoDecision
    ELSE LET limits == policy.limits
             stats == rest[1]
         IN  IF /\ "maxExternalPerRun" \in DOMAIN limits
                /\ actionClass \in EXTERNAL_CLASSES
                /\ CountOr0(stats, "externalCount") >= limits.maxExternalPerRun
             THEN [decision |-> "deny", reason |-> "maxExternalPerRun",
                   tier |-> policy.tier]
             ELSE IF /\ "maxIrreversiblePerRun" \in DOMAIN limits
                     /\ actionClass \in IRREVERSIBLE_CLASSES
                     /\ CountOr0(stats, "irreversibleCount") >= limits.maxIrreversiblePerRun
             THEN [decision |-> "deny", reason |-> "maxIrreversiblePerRun",
                   tier |-> policy.tier]
             ELSE NoDecision

decide(policy, step, rest) ==
    LET actionClass == classifyStep(step)
        limitDecision == enforceLimits(policy, actionClass, rest)
    IN  IF limitDecision # NoDecision THEN limitDecision
        ELSE IF policy.tier = 1
        THEN IF actionClass \in {"local_read", "local_write"}
             THEN [decision |-> "allow", reason |-> "tier1-local", tier |-> policy.tier]
             ELSE [decision |-> "deny", reason |-> "tier1-external", tier |-> policy.tier]
        ELSE IF policy.tier = 2
        THEN IF actionClass \in {"local_read", "local_write"}
             THEN [decision |-> "allow", reason |-> "tier2-local", tier |-> policy.tier]
             ELSE IF actionClass = "external_read"
             THEN [decision |-> "allow", reason |-> "tier2-external-read",
                   tier |-> policy.tier]
             ELSE IF actionClass \in {"external_write_reversible", "external_comms"}
             THEN IF isAllowlisted(policy, actionClass, step.classification.allowlistKey)
                  THEN [decision |-> "allow", reason |-> "tier2-allowlisted",
                        tier |-> policy.tier]
                  ELSE [decision |-> "ask", reason |-> "tier2-allowlist-required",
                        tier |-> policy.tier]
             ELSE [decision |-> "deny", reason |-> "tier2-high-risk", tier |-> policy.tier]
        ELSE [decision |-> "allow", reason |-> "tier3-broad", tier |-> policy.tier]

\* one call of decide
Decide(policy, step, rest) ==
    /\ nw' = [pc |-> "tier decided", policy |-> policy, step |-> step, rest |-> rest,
              result |-> decide(policy, step, rest)]
    /\ UNCHANGED <<indexFile, now, lastOp, trav, vectorFiles, config, out, writers>>

(***************************************************************************)
(* runNeuronWavesLoop(config, deps, observation): the orchestrator, which  *)
(* asks deps.planner for a plan and takes its steps in order.  Autonomy is *)
(* a number in units of 1/ONE.  A planner is the heuristic planner, or one *)
(* that returns the steps it holds.  A plan step is [id, action,           *)
(* requiresApproval], its id being its position.  A run is                 *)
(*   pc                "loop" or "returned"                                *)
(*   planner, autonomy the planner that made the plan, config.autonomy     *)
(*   steps, i          plan.steps and the position of the next step        *)
(*   stepStates        execution.stepStates by position: status, attempts, *)
(*                     and the kind of the policy decision of the step     *)
(*                     (kept for the properties only)                      *)
(*   awaitingApproval  the local of that name                              *)
(*   logs              the step messages logged, as <<message, step id>>   *)
(*   status            the status returned                                 *)
(* The promise that executeStep awaits is a timer and never rejects, so    *)
(* its catch branch and the result "failed" do not occur.                  *)
(***************************************************************************)
evaluatePolicy(step, autonomy) ==
    IF autonomy = 0 /\ step.requiresApproval THEN "block"
    ELSE IF step.requiresApproval /\ autonomy < 5000 THEN "allow_with_prompt"
    ELSE "allow"

\* a plausible slip: a step that awaits approval runs like an allowed one
executeStepUnprompted(step, policy) ==
    IF policy = "block"
    THEN [result |-> "blocked", logs |-> << <<"blocked by policy", step.id>> >>]
    ELSE [result |-> "success",
          logs |-> << <<"Executing step", step.id>>, <<"completed", step.id>> >>]

\* the result of executeStep and the messages it logs
executeStep(step, policy) ==
    IF policy = "block"
    THEN [result |-> "blocked", logs |-> << <<"blocked by policy", step.id>> >>]
    ELSE IF policy = "allow_with_prompt"
    THEN [result |-> "awaiting", logs |-> << <<"awaiting approval", step.id>> >>]
    ELSE [result |-> "success",
          logs |-> << <<"Executing step", step.id>>, <<"completed", step.id>> >>]

\* steps.push of inferSteps: the id is the position in the plan
Push(steps, action, requiresApproval) ==
    Append(steps, [id |-> Len(steps) + 1, action |-> action,
                   requiresApproval |-> requiresApproval])

inferSteps(t, autonomy) ==
    LET requiresApproval == autonomy < 5000
        requiresPrompt == autonomy < ONE
        s1 == IF \/ Includes(t, <<"search">>) \/ Includes(t, <<"find">>)
                 \/ Includes(t, <<"look", "up">>)
              THEN Push(<<>>, "web_search", requiresApproval) ELSE <<>>
        s2 == IF \/ Includes(t, <<"send">>) \/ Includes(t, <<"message">>)
                 \/ Includes(t, <<"email">>)
              THEN Push(s1, "send_message", requiresPrompt) ELSE s1
        s3 == IF \/ Includes(t, <<"write">>) \/ Includes(t, <<"create", "file">>)
                 \/ Includes(t, <<"save">>)
              THEN Push(s2, "write_file", requiresPrompt) ELSE s2
    IN  IF Len(s3) = 0 THEN Push(s3, "create_note", FALSE) ELSE s3

HeuristicPlanner == [kind |-> "heuristic", steps |-> <<>>]

\* planner.generate(observation, context, autonomy), of which plan.steps
generate(planner, t, autonomy) ==
    IF planner.kind = "heuristic" THEN inferSteps(t, autonomy) ELSE planner.steps

\* initializeExecutionState, of which the step states
initializeExecutionState(steps) ==
    [k \in 1..Len(steps) |-> [status |-> "pending", attempts |-> 0, policy |-> undefined]]

OrchestratorStart(autonomy, planner, t) ==
    /\ nw.pc = "none"
    /\ LET steps == generate(planner, t, autonomy)
       IN  nw' = [pc |-> "loop", planner |-> planner.kind, autonomy |-> autonomy,
                  steps |-> steps, i |-> 1,
                  stepStates |-> initializeExecutionState(steps),
                  awaitingApproval |-> FALSE, logs |-> <<>>, status |-> undefined]
    /\ UNCHANGED <<indexFile, now, lastOp, trav, vectorFiles, config, out, writers>>

\* one iteration of for (const step of plan.steps), the break included
OrchestratorIter ==
    /\ nw.pc = "loop"
    /\ ~nw.awaitingApproval
    /\ nw.i <= Len(nw.steps)
    /\ LET step == nw.steps[nw.i]
           policy == evaluatePolicy(step, nw.autonomy)
           ran == executeStep(step, policy)
           status == IF ran.result = "awaiting" THEN "awaiting_approval"
                     ELSE IF ran.result = "success" THEN "success"
                     ELSE IF ran.result = "blocked" THEN "skipped" ELSE "failed"
       IN  nw' = [nw EXCEPT !.stepStates[nw.i] =
                                [status |-> status, attempts |-> @.attempts + 1,
                                 policy |-> policy],
                            !.logs = @ \o ran.logs,
                            !.awaitingApproval = (ran.result = "awaiting"),
                            !.i = @ + 1]
    /\ UNCHANGED <<indexFile, now, lastOp, trav, vectorFiles, config, out, writers>>

\* the code after the loop: the status returned
OrchestratorReturn ==
    /\ nw.pc = "loop"
    /\ nw.awaitingApproval \/ nw.i > Len(nw.steps)
    /\ nw' = [nw EXCEPT !.pc = "returned",
                        !.status = IF nw.awaitingApproval
                                   THEN "awaiting_approval" ELSE "completed"]
    /\ UNCHANGED <<indexFile, now, lastOp, trav, vectorFiles, config, out, writers>>

Init ==
    /\ indexFile = [status |-> "missing", data |-> EmptyIndex]
    /\ now = 1
    /\ lastOp = [op |-> "init"]
    /\ trav = Idle
    /\ vectorFiles = [w \in Weeks |-> NoFile]
    /\ config = DEFAULT_HYBRID_CONFIG
    /\ out = NoOutput
    /\ writers = [w \in Writer |-> NotCalled]
    /\ nw = NotStarted

Next ==
    \/ \E fromId \in Node, toId \in Node, in \in AddLinkInputs :
          /\ now <= MaxClock
          /\ AddLink(fromId, toId, in[1], in[2])
    \/ \E fromId \in Node, toId \in Node : RemoveLink(fromId, toId)

Spec == Init /\ [][Next]_vars

(***************************************************************************)
(* The traversal specification: links are added between pairs that are not *)
(* linked yet, before the first traversal; traversals then run one         *)
(* iteration at a time.                                                    *)
(***************************************************************************)
\* traverseChain is called with maxHops in 0..MaxHops; a node reaches the
\* frontier a second time at hop 2 at the earliest, so 3 is the least bound
\* under which a second dequeue could expand
MaxHops == 3

MinStrengthInputs == {3000, 5000}

TravLinkInputs == {<<"x", "y">>, <<"y", "z">>, <<"x", "z">>, <<"x", "x">>}

Unlinked(fromId, toId) ==
    /\ ~HasLinkTo(getLinks(indexFile, fromId), toId)
    /\ ~HasLinkTo(getLinks(indexFile, toId), fromId)

NextTraverse ==
    \/ \E p \in TravLinkInputs, strength \in Strengths :
          /\ trav.pc = "idle"
          /\ Unlinked(p[1], p[2])
          /\ AddLink(p[1], p[2], "related", strength)
    \/ \E startId \in Node, maxHops \in 0..MaxHops, minStrength \in MinStrengthInputs :
          TraverseStart(startId, maxHops, minStrength)
    \/ TraverseStep
    \/ TraverseReturn

SpecTraverse == Init /\ [][NextTraverse]_vars

\* the loop of a call runs on: an iteration, or the return on the empty
\* queue, is taken when it can be
SpecTraverseFair ==
    SpecTraverse /\ WF_vars(TraverseStep) /\ WF_vars(TraverseReturn)

(***************************************************************************)
(* The damaged-index specification: links are added, the index file may be *)
(* damaged at any time, and removeLink and the reading calls run on the    *)
(* file as it is.  addLink on a damaged file writes a new document.        *)
(***************************************************************************)
LinkTypesInputs == {<<>>, <<"parent">>}

\* the pairs that addLink and removeLink are called on
DamagedLinkInputs == {<<"x", "y">>, <<"y", "z">>}

NextDamaged ==
    \/ \E p \in DamagedLinkInputs, in \in AddLinkInputs :
          /\ out.pc = "none"
          /\ now <= MaxClock
          /\ AddLink(p[1], p[2], in[1], in[2])
    \/ out.pc = "none" /\ DamageIndex
    \/ \E p \in DamagedLinkInputs :
          /\ out.pc = "none"
          /\ RemoveLink(p[1], p[2])
    \/ \E entryId \in Node :
          /\ out.pc = "none"
          /\ GetLinks(entryId)
    \/ \E startId \in Node, minStrength \in MinStrengthInputs :
          /\ out.pc = "none"
          /\ TraverseChain(startId, 3, minStrength)
    \/ \E entryId \in Node, linkTypes \in LinkTypesInputs :
          /\ out.pc = "none"
          /\ FindRelated(entryId, 2, 3000, linkTypes)

SpecDamaged == Init /\ [][NextDamaged]_vars

(***************************************************************************)
(* The writers specification: one link may be stored first, then each of   *)
(* two processes makes one call of addLink or removeLink, in two steps.    *)
(***************************************************************************)
WriterLinkInputs == {<<"x", "y">>, <<"y", "x">>, <<"y", "z">>}

NextWriters ==
    \/ \E p \in WriterLinkInputs :
          /\ indexFile.status = "missing"
          /\ \A w \in Writer : writers[w].pc = "idle"
          /\ AddLink(p[1], p[2], "related", 4000)
    \/ \E w \in Writer, p \in WriterLinkInputs :
          WriterLoad(w, "addLink", p[1], p[2], "parent", 9000)
    \/ \E w \in Writer, p \in WriterLinkInputs :
          WriterLoad(w, "removeLink", p[1], p[2], "none", 0)
    \/ \E w \in Writer : WriterSave(w)

SpecWriters == Init /\ [][NextWriters]_vars

(***************************************************************************)
(* The retrieval specification: the stores are filled first (links between *)
(* unlinked pairs, vectors into week 1), then retrieve is called.  retrieve *)
(* writes nothing, so a behaviour holds one call: a second call would     *)
(* return what it returns as the first call of another behaviour.          *)
(***************************************************************************)
\* the number of records saveVector appends before retrieve is called
MaxVectors == 2

RetrieveLinkInputs == {<<"x", "y", 9000>>, <<"y", "z", 9000>>, <<"x", "z", 4000>>}

VectorIds == {"y", "z"}

\* [1,0] and [3,4]
VectorInputs == {<<ONE, 0>>, <<3 * ONE, 4 * ONE>>}

QueryInputs == {<<ONE, 0>>, <<4 * ONE, 3 * ONE>>}

SeedInputs == {<<>>, <<"x">>, <<"x", "y">>}

MaxResultsInputs == {Omitted, Given(0), Given(1), Given(2)}

MinScoreInputs == {Omitted, Given(0), Given(7000), Given(-1000)}

StoredLines == SumSeq([i \in DOMAIN AllWeeks |-> Len(vectorFiles[AllWeeks[i]].lines)])

NextRetrieve ==
    \/ \E p \in RetrieveLinkInputs :
          /\ out.pc = "none"
          /\ Unlinked(p[1], p[2])
          /\ AddLink(p[1], p[2], "related", p[3])
    \/ \E id \in VectorIds, vector \in VectorInputs :
          /\ out.pc = "none"
          /\ StoredLines < MaxVectors
          /\ SaveVector(id, vector, 1, "s")
    \/ \E queryVector \in QueryInputs, seedIds \in SeedInputs,
          maxResultsOpt \in MaxResultsInputs, minScoreOpt \in MinScoreInputs :
          /\ out.pc = "none"
          /\ Retrieve(queryVector, seedIds, maxResultsOpt, minScoreOpt, <<>>)

SpecRetrieve == Init /\ [][NextRetrieve]_vars

(***************************************************************************)
(* The configured retrieval specification: as the retrieval specification, *)
(* with the engine that retrieve is called on constructed, before the      *)
(* stores are filled, with a configuration other than the default one.     *)
(***************************************************************************)
\* a half-life of a day, and 0 (no decay)
HalfLifeInputs == {24, 0}

\* vectorWeight 0.2 and 1.0, against the default 0.7
VectorWeightInputs == {2000, ONE}

ConfigInputs ==
    [recencyBoost : BOOLEAN, recencyHalfLifeHours : HalfLifeInputs,
     vectorWeight : VectorWeightInputs]

ConfiguredSeedInputs == {<<>>, <<"x">>}

ConfiguredMinScoreInputs == {Omitted, Given(-1000)}

NextConfigured ==
    \/ \E partial \in ConfigInputs :
          /\ out.pc = "none"
          /\ lastOp.op = "init"
          /\ StoredLines = 0
          /\ config = DEFAULT_HYBRID_CONFIG
          /\ Construct(partial)
    \/ \E p \in RetrieveLinkInputs :
          /\ out.pc = "none"
          /\ Unlinked(p[1], p[2])
          /\ AddLink(p[1], p[2], "related", p[3])
    \/ \E id \in VectorIds, vector \in VectorInputs :
          /\ out.pc = "none"
          /\ StoredLines < MaxVectors
          /\ SaveVector(id, vector, 1, "s")
    \/ \E queryVector \in QueryInputs, seedIds \in ConfiguredSeedInputs,
          minScoreOpt \in ConfiguredMinScoreInputs :
          /\ out.pc = "none"
          /\ Retrieve(queryVector, seedIds, Omitted, minScoreOpt, <<>>)

SpecConfigured == Init /\ [][NextConfigured]_vars

(***************************************************************************)
(* The vector store specification: lines reach the files (records through  *)
(* saveVector, of the configured length or not, and lines that do not      *)
(* parse), then one of the reading calls runs.                             *)
(***************************************************************************)
\* the number of lines the files hold before the reading call
MaxLines == 3

\* the records saveVector stores: [1,0] under two ids, [3,4], the zero vector
\* and a vector of one component
RecordInputs ==
    {<<"y", <<ONE, 0>>>>, <<"z", <<ONE, 0>>>>, <<"y", <<3 * ONE, 4 * ONE>>>>,
     <<"z", <<0, 0>>>>, <<"z", <<ONE>>>>}

SearchQueryInputs == {<<ONE, 0>>, <<4 * ONE, 3 * ONE>>, <<0, 0>>}

KInputs == {0, 1, 2}

WeekNumbersInputs == {<<>>, <<1>>, <<2, 1>>}

\* the arguments of cosineSimilarity and normalizeVector: zero vectors of
\* length 1 and 2 among them
PlainVectorInputs == {<<0, 0>>, <<ONE, 0>>, <<3 * ONE, 4 * ONE>>, <<0>>, <<ONE>>}

NextVector ==
    \/ \E r \in RecordInputs, weekNumber \in Weeks :
          /\ out.pc = "none"
          /\ StoredLines < MaxLines
          /\ SaveVector(r[1], r[2], weekNumber, "s")
    \/ \E weekNumber \in Weeks :
          /\ out.pc = "none"
          /\ StoredLines < MaxLines
          /\ WriteMalformedLine(weekNumber)
    \/ \E weekNumbers \in WeekNumbersInputs :
          /\ out.pc = "none"
          /\ LoadVectors(weekNumbers)
    \/ \E queryVector \in SearchQueryInputs, k \in KInputs,
          weekNumbers \in WeekNumbersInputs :
          /\ out.pc = "none"
          /\ Search(queryVector, k, weekNumbers)
    \/ \E a \in PlainVectorInputs, b \in PlainVectorInputs :
          /\ out.pc = "none"
          /\ CosineSimilarity(a, b)
    \/ \E vector \in PlainVectorInputs :
          /\ out.pc = "none"
          /\ NormalizeVector(vector)

SpecVector == Init /\ [][NextVector]_vars

(***************************************************************************)
(* The autonomy-gate specification: decidePolicy is called on inputs drawn *)
(* from bounded sets, or runNeuronWavesLoop(input) runs once, one loop     *)
(* iteration at a time.                                                    *)
(***************************************************************************)
\* limits and counters are drawn from 0..MaxLimit
MaxLimit == 2

AllowInputs ==
    {[tools |-> {}, domains |-> {}, contacts |-> {}, folders |-> {}, channels |-> {}],
     [tools |-> {"web_search"}, domains |-> {"public_web"}, contacts |-> {"luis"},
      folders |-> {"allowed"}, channels |-> {"dm"}]}

DenyInputs ==
    {[tools |-> {}, domains |-> {}, actions |-> {}],
     [tools |-> {"web_search"}, domains |-> {}, actions |-> {}],
     [tools |-> {}, domains |-> {"public_web"}, actions |-> {}],
     [tools |-> {}, domains |-> {}, actions |-> {"local_write", "money_movement"}]}

LimitsInputs ==
    {[maxActionsPerRun |-> a, maxToolCallsPerRun |-> 50] : a \in 0..MaxLimit}
    \cup {[maxActionsPerRun |-> a, maxToolCallsPerRun |-> 50,
           maxExternalPerRun |-> e, maxIrreversiblePerRun |-> r] :
              a \in 0..MaxLimit, e \in 0..1, r \in 0..1}

AutonomyConfigInputs ==
    {[level |-> level, requireApproval |-> requireApproval, allow |-> allow,
      deny |-> deny, limits |-> limits] :
        level \in 1..3, requireApproval \in BOOLEAN, allow \in AllowInputs,
        deny \in DenyInputs, limits \in LimitsInputs}

\* toolName, targetDomain, targetContact, targetFolder, targetChannel
TargetInputs ==
    {<<undefined, undefined, undefined, undefined, undefined>>,
     <<"web_search", "public_web", "luis", "allowed", "dm">>,
     <<"shell", "public_web", "luis", "allowed", "dm">>,
     <<"web_search", "", "", "", "">>}

StatsInputs ==
    {[actionsConsidered |-> a, externalCount |-> e, irreversibleCount |-> r,
      toolCallsCount |-> 0] : a \in 0..MaxLimit, e \in 0..1, r \in 0..1}

LoopTextInputs ==
    {<<"search", "cats">>, <<"look", "up", "cats">>, <<"write", "a", "note">>}

NextGate ==
    \/ /\ nw.pc = "none"
       /\ \E autonomy \in AutonomyConfigInputs, actionClass \in ActionClass,
             target \in TargetInputs, stats \in StatsInputs :
             DecidePolicy([autonomy |-> autonomy, actionClass |-> actionClass,
                           toolName |-> target[1], targetDomain |-> target[2],
                           targetContact |-> target[3], targetFolder |-> target[4],
                           targetChannel |-> target[5]], stats)
    \/ /\ nw.pc = "none"
       /\ \E autonomy \in AutonomyConfigInputs, t \in LoopTextInputs :
             LoopStart(autonomy, t)
    \/ LoopPolicyIter
    \/ LoopExecuteStub
    \/ ExecuteStubIter
    \/ LoopReturn

SpecGate == Init /\ [][NextGate]_vars

(***************************************************************************)
(* The tier-gate specification: decide is called on inputs drawn from      *)
(* bounded sets.                                                           *)
(***************************************************************************)
AllowlistsInputs ==
    {[external_write_reversible |-> {"ok"}, external_comms |-> {"ok"}],
     [external_write_reversible |-> {"", "ok"}],
     [external_comms |-> {}]}

TierLimitsInputs ==
    {[maxExternalPerRun |-> 1], [maxIrreversiblePerRun |-> 1],
     [maxExternalPerRun |-> 0, maxIrreversiblePerRun |-> 0]}

PolicyConfigInputs ==
    {[tier |-> tier] : tier \in 1..3}
    \cup {[tier |-> tier, allowlists |-> a] : tier \in 1..3, a \in AllowlistsInputs}
    \cup {[tier |-> tier, limits |-> l] : tier \in 1..3, l \in TierLimitsInputs}
    \cup {[tier |-> tier, allowlists |-> a, limits |-> l] :
             tier \in 1..3, a \in AllowlistsInputs, l \in TierLimitsInputs}

AllowlistKeyInputs == {undefined, "", "ok", "other"}

TierStepInputs ==
    {[classification |-> [class |-> class, allowlistKey |-> key]] :
        class \in ActionClass, key \in AllowlistKeyInputs}

TierStatsInputs ==
    {<<>>, << <<>> >>, <<[externalCount |-> 1]>>,
     <<[externalCount |-> 0, irreversibleCount |-> 1]>>}

NextTier ==
    /\ nw.pc = "none"
    /\ \E policy \in PolicyConfigInputs, step \in TierStepInputs,
          rest \in TierStatsInputs :
          Decide(policy, step, rest)

SpecTier == Init /\ [][NextTier]_vars

(***************************************************************************)
(* The orchestrator specification: one run of                              *)
(* runNeuronWavesLoop(config, deps, observation), one loop iteration at a  *)
(* time, with the heuristic planner on a text or with a planner that       *)
(* returns a plan of up to MaxPlanSteps steps.  config.autonomy is 0.0,    *)
(* 0.5 or 1.0 as AutonomyLevel declares, or 0.25, which a caller without   *)
(* the type check can pass.                                                *)
(***************************************************************************)
MaxPlanSteps == 3

AutonomyInputs == {0, 2500, 5000, ONE}

ObservationInputs ==
    {<<"search", "for", "information">>,
     <<"send", "email", "to", "team">>,
     <<"save", "the", "file", "and", "send", "a", "message">>,
     <<"find", "and", "write">>,
     <<"hello">>}

RECURSIVE Flagged(_)
\* the plan whose steps hold the given requiresApproval flags
Flagged(flags) ==
    IF flags = <<>> THEN <<>>
    ELSE Append(Flagged(SubSeq(flags, 1, Len(flags) - 1)),
                [id |-> Len(flags), action |-> "execute",
                 requiresApproval |-> flags[Len(flags)]])

PlannerInputs ==
    {HeuristicPlanner}
    \cup {[kind |-> "fixed", steps |-> Flagged(flags)] :
             flags \in UNION {[1..n -> BOOLEAN] : n \in 1..MaxPlanSteps}}

NextOrchestrator ==
    \/ /\ nw.pc = "none"
       /\ \E autonomy \in AutonomyInputs, planner \in PlannerInputs,
             t \in ObservationInputs :
             OrchestratorStart(autonomy, planner, t)
    \/ OrchestratorIter
    \/ OrchestratorReturn

SpecOrchestrator == Init /\ [][NextOrchestrator]_vars

(***************************************************************************)
(* Properties of the graph store, checked under Spec.                      *)
(***************************************************************************)
LinksTo(links, toId) == SelectSeq(links, LAMBDA l : l.toId = toId)

LinkSet(links) == {links[i] : i \in DOMAIN links}

\* every step of a call sets lastOp to the call and its arguments, so the
\* properties below read the call of a step from lastOp'
\* the reverse of a link type as the data model states it: parent and child
\* swapped, every other type unchanged
Reversed(t) == IF t = "parent" THEN "child" ELSE IF t = "child" THEN "parent" ELSE t

MirrorStored(file, a, b, t, s) ==
    \E l \in LinkSet(getLinks(file, b)) :
       l.toId = a /\ l.linkType = Reversed(t) /\ l.strength = s

\* C5 as stated: after addLink(A, B, type, s) from any reachable index,
\* getLinks(A) holds a link to B and getLinks(B) holds a link to A whose
\* linkType is the reverse of type and whose strength is s.
C5_MirrorAfterEveryAddLink ==
    [][lastOp'.op = "addLink" =>
          LET a == lastOp'.fromId  b == lastOp'.toId
          IN  /\ HasLinkTo(getLinks(indexFile', a), b)
              /\ MirrorStored(indexFile', a, b, lastOp'.linkType, lastOp'.strength)]_vars

\* C5 amended: after addLink(A, B, type, s), getLinks(A) holds a link to B and
\* getLinks(B) holds a link to A; the link B->A has the reverse type and
\* strength s when A # B and no link B->A was stored before the call, and it
\* is the link stored before the call when there was one.
C5_MirrorWhenNoneStored ==
    [][lastOp'.op = "addLink" =>
          LET a == lastOp'.fromId  b == lastOp'.toId
          IN  /\ HasLinkTo(getLinks(indexFile', a), b)
              /\ HasLinkTo(getLinks(indexFile', b), a)
              /\ (a # b /\ ~HasLinkTo(getLinks(indexFile, b), a)) =>
                    MirrorStored(indexFile', a, b, lastOp'.linkType, lastOp'.strength)
              /\ HasLinkTo(getLinks(indexFile, b), a) =>
                    LinksTo(getLinks(indexFile', b), a) = LinksTo(getLinks(indexFile, b), a)]_vars

\* an addLink("parent") between two nodes with no stored mirror has stored a
\* "child" mirror
C5_Witness ==
    /\ lastOp.op = "addLink"
    /\ lastOp.fromId # lastOp.toId
    /\ lastOp.linkType = "parent"
    /\ ~lastOp.hadReverse
    /\ MirrorStored(indexFile, lastOp.fromId, lastOp.toId, "parent", lastOp.strength)

\* C6: when a link A->B is stored, addLink(A, B, type', s') with any type and
\* strength leaves that link (strength, linkType, createdAt) as it was and
\* adds no second link A->B.
C6_FirstWriteWins ==
    [][(lastOp'.op = "addLink" /\ HasLinkTo(getLinks(indexFile, lastOp'.fromId), lastOp'.toId)) =>
          LET a == lastOp'.fromId  b == lastOp'.toId
          IN  /\ LinksTo(getLinks(indexFile', a), b) = LinksTo(getLinks(indexFile, a), b)
              /\ Len(LinksTo(getLinks(indexFile', a), b)) = 1]_vars

\* addLink has run with another type and strength on a pair whose forward
\* link was already stored
C6_Witness ==
    /\ lastOp.op = "addLink"
    /\ lastOp.hadForward
    /\ \E l \in LinkSet(getLinks(indexFile, lastOp.fromId)) :
          /\ l.toId = lastOp.toId
          /\ l.strength # lastOp.strength
          /\ l.linkType # lastOp.linkType
          /\ l.createdAt < now - 1

\* C7: in every reachable index each adjacency list holds at most one link
\* per ordered (fromId, toId) pair, and the links of a list start at its node.
C7_OneLinkPerPair ==
    \A n \in Node :
       LET links == getLinks(indexFile, n)
       IN  /\ \A i \in DOMAIN links : links[i].fromId = n
           /\ \A i \in DOMAIN links, j \in DOMAIN links :
                 links[i].toId = links[j].toId => i = j

\* a link inserted again after removeLink dropped it while its mirror stayed
C7_Witness ==
    /\ lastOp.op = "addLink"
    /\ lastOp.fromId # lastOp.toId
    /\ ~lastOp.hadForward
    /\ lastOp.hadReverse

\* C8: removeLink(from, to) leaves getLinks(from) without a link to `to`, keeps
\* every other link of `from` and the list of every other node (the mirror
\* to->from among them), and does not write the file when no link from->to
\* is stored.
C8_RemoveOnlyForward ==
    [][lastOp'.op = "removeLink" =>
          LET a == lastOp'.fromId  b == lastOp'.toId
          IN  /\ ~HasLinkTo(getLinks(indexFile', a), b)
              /\ LinkSet(getLinks(indexFile', a)) =
                    {l \in LinkSet(getLinks(indexFile, a)) : l.toId # b}
              /\ \A n \in Node \ {a} : getLinks(indexFile', n) = getLinks(indexFile, n)
              /\ ~HasLinkTo(getLinks(indexFile, a), b) =>
                    (indexFile' = indexFile /\ ~lastOp'.saved)
              /\ HasLinkTo(getLinks(indexFile, a), b) => lastOp'.saved]_vars

\* removeLink has dropped a forward link and the mirror is still stored
C8_Witness ==
    /\ lastOp.op = "removeLink"
    /\ lastOp.saved
    /\ lastOp.fromId # lastOp.toId
    /\ HasLinkTo(getLinks(indexFile, lastOp.toId), lastOp.fromId)
    /\ ~HasLinkTo(getLinks(indexFile, lastOp.fromId), lastOp.toId)

(***************************************************************************)
(* Properties of retrieve, checked under SpecRetrieve.                     *)
(***************************************************************************)
Returned == out.pc = "returned"

SetMax(S) == CHOOSE m \in S : \A n \in S : n <= m

\* what the caller asked for: the supplied option, or the documented default
Requested(opt, default) == IF opt.given THEN opt.value ELSE default

\* C1: every candidate retrieve returns has hybridScore >= the minScore the
\* caller supplied (0.3 when minScore is omitted).
C1_ResultsReachMinScore ==
    Returned =>
       \A i \in DOMAIN out.results :
          out.results[i].hybridScore >= Requested(out.minScore, 3000)

\* a call with a supplied minScore has returned a candidate and has left out
\* another one, whose score is below that minScore
C1_Witness ==
    /\ Returned
    /\ out.minScore.given /\ out.minScore.value > 0
    /\ out.results # <<>>
    /\ \E i \in DOMAIN out.scored : out.scored[i].hybridScore < out.minScore.value

\* C2 as stated: retrieve returns at most the supplied maxResults candidates,
\* for every supplied maxResults >= 0 (0 included), and at most 10 when
\* maxResults is omitted.
C2_AtMostMaxResults ==
    Returned => Len(out.results) <= Requested(out.maxResults, 10)

\* 2^n for a whole n >= 0
RECURSIVE Pow2(_)
Pow2(n) == IF n <= 0 THEN 1 ELSE 2 * Pow2(n - 1)

ChainOf(id) == {i \in DOMAIN out.chainResults : out.chainResults[i].id = id}

VectorOf(id) == {i \in DOMAIN out.vectorResults : out.vectorResults[i].id = id}

\* the map after the vector results and the first k chain results are merged
MergedAfter(k) ==
    MergeChainResults(MergeVectorResults(<<>>, out.vectorResults),
                      SubSeq(out.chainResults, 1, k))

\* C3: a candidate id present in the vector results and in the chain results
\* of all seeds ends with the vectorScore of vector search (of the last vector
\* result for the id when the store holds the id more than once), with
\* linkStrength the maximum linkStrength over its chain results and with
\* chainScore the maximum of linkStrength * 0.5^(hopDistance-1) over them; and
\* merging one more chain result never decreases chainScore or linkStrength.
C3_MergeTakesMaximum ==
    Returned =>
       /\ \A i \in DOMAIN out.scored :
             LET e == out.scored[i]
                 C == ChainOf(e.id)
                 V == VectorOf(e.id)
             IN  (C # {} /\ V # {}) =>
                    /\ e.vectorScore = out.vectorResults[SetMax(V)].score
                    /\ e.linkStrength =
                          SetMax({out.chainResults[j].linkStrength : j \in C})
                    /\ e.chainScore * Pow2(config.maxHops) =
                          SetMax({out.chainResults[j].linkStrength
                                    * Pow2(config.maxHops - (out.chainResults[j].hopDistance - 1))
                                  : j \in C})
       /\ \A i \in DOMAIN out.results :
             \E j \in DOMAIN out.scored : out.results[i] = out.scored[j]
       /\ \A k \in DOMAIN out.chainResults :
             LET before == MergedAfter(k - 1)
                 after == MergedAfter(k)
             IN  \A i \in DOMAIN before :
                    /\ after[i].id = before[i].id
                    /\ after[i].chainScore >= before[i].chainScore
                    /\ after[i].linkStrength >= before[i].linkStrength

\* a returned candidate with a vector score whose last chain result is weaker
\* and farther than an earlier one: the maximum is not the value merged last
C3_Witness ==
    /\ Returned
    /\ \E i \in DOMAIN out.results :
          LET e == out.results[i]
              C == ChainOf(e.id)
          IN  /\ VectorOf(e.id) # {}
              /\ C # {}
              /\ out.chainResults[SetMax(C)].linkStrength < e.linkStrength
              /\ calculateChainScore(out.chainResults[SetMax(C)].linkStrength,
                                     out.chainResults[SetMax(C)].hopDistance) < e.chainScore

\* C4: every candidate of retrieve, from the vector stage, the graph stage or
\* both, has hybridScore = vectorScore * chainBoost * recencyScore, with
\* chainBoost = 1 + chainWeight * linkStrength if linkStrength > 0, else 1.
C4_HybridScoreFormula ==
    Returned =>
       \A e \in {out.results[i] : i \in DOMAIN out.results}
                \cup {out.scored[i] : i \in DOMAIN out.scored} :
          LET chainBoost == IF e.linkStrength > 0
                            THEN ONE + Mul(config.chainWeight, e.linkStrength)
                            ELSE ONE
          IN  e.hybridScore = Mul(Mul(e.vectorScore, chainBoost), e.recencyScore)

\* one call has returned a candidate of both stages, boosted above its vector
\* score, and a candidate of the graph stage alone
C4_Witness ==
    /\ Returned
    /\ \E i \in DOMAIN out.results :
          /\ out.results[i].vectorScore > 0
          /\ out.results[i].linkStrength > 0
          /\ out.results[i].hybridScore > out.results[i].vectorScore
    /\ \E i \in DOMAIN out.results :
          /\ out.results[i].vectorScore = 0
          /\ out.results[i].linkStrength > 0

\* C28 as stated: retrieve filters with the minScore the caller supplied (0
\* included; 0.3 when omitted): a candidate of the merged map whose
\* hybridScore is >= that minScore is left out of the result only when
\* maxResults (10 when omitted) candidates of hybridScore at least as high
\* are returned.
C28_FiltersWithSuppliedMinScore ==
    Returned =>
       \A i \in DOMAIN out.scored :
          LET e == out.scored[i]
          IN  (/\ e.hybridScore >= Requested(out.minScore, 3000)
               /\ \A j \in DOMAIN out.results : out.results[j] # e)
              => /\ Len(out.results) = Requested(out.maxResults, 10)
                 /\ \A j \in DOMAIN out.results :
                       out.results[j].hybridScore >= e.hybridScore

\* C29: a candidate reached through the graph alone (its id is in no vector
\* result) has final hybridScore 0, whatever its linkStrength and hop
\* distance, and is not returned when the applied minScore is above 0.
C29_GraphOnlyScoresZero ==
    Returned =>
       \A i \in DOMAIN out.scored :
          LET e == out.scored[i]
              applied == IF out.minScore.given /\ out.minScore.value # 0
                         THEN out.minScore.value ELSE 3000
          IN  VectorOf(e.id) = {} =>
                 /\ e.vectorScore = 0
                 /\ e.hybridScore = 0
                 /\ applied > 0 => \A j \in DOMAIN out.results : out.results[j].id # e.id

\* a call with the default minScore has returned a candidate of vector
\* search and has left out a candidate of the graph alone that is linked to
\* a seed with strength 0.9 at hop 1
C29_Witness ==
    /\ Returned
    /\ ~out.minScore.given
    /\ out.results # <<>>
    /\ \E i \in DOMAIN out.scored :
          /\ VectorOf(out.scored[i].id) = {}
          /\ out.scored[i].linkStrength = 9000
          /\ out.scored[i].hopDistance = 1
          /\ out.scored[i].chainScore > 0
          /\ \A j \in DOMAIN out.results : out.results[j].id # out.scored[i].id

(***************************************************************************)
(* Properties of traverseChain, checked under SpecTraverse.                *)
(***************************************************************************)
NoRepeat(seq) == \A i \in DOMAIN seq, j \in DOMAIN seq : seq[i] = seq[j] => i = j

ExpandedOnce == trav.pc # "idle" => NoRepeat(trav.expanded)

\* the dequeue of a node that is already visited drops it from the frontier
\* and changes nothing else
SkipsVisited ==
    (/\ trav.pc = "loop" /\ trav'.pc = "loop"
     /\ trav.queue # <<>>
     /\ Head(trav.queue).id \in trav.visited)
    => /\ trav'.results = trav.results
       /\ trav'.expanded = trav.expanded
       /\ trav'.visited = trav.visited
       /\ trav'.queue = Tail(trav.queue)

\* C9: within one traverseChain call each node has its outgoing links
\* iterated at most once, and the dequeue of an already visited node emits
\* nothing and expands nothing.
C9_ExpandedAtMostOnce == []ExpandedOnce /\ [][SkipsVisited]_vars

\* a finished traversal that emitted the same id twice, the second time below
\* the hop bound: the node was put on the frontier twice and only the visited
\* set kept its second dequeue from expanding it again
C9_Witness ==
    /\ trav.pc = "done"
    /\ \E i \in DOMAIN trav.results, j \in DOMAIN trav.results :
          /\ i < j
          /\ trav.results[i].id = trav.results[j].id
          /\ trav.results[j].hopDistance < trav.maxHops

\* C10: every result of traverseChain(start, maxHops, minStrength) has
\* 1 <= hopDistance <= maxHops, and with maxHops = 0 there is no result.
C10_HopDistanceBounded ==
    trav.pc # "idle" =>
       /\ \A i \in DOMAIN trav.results :
             /\ 1 <= trav.results[i].hopDistance
             /\ trav.results[i].hopDistance <= trav.maxHops
       /\ trav.maxHops = 0 => trav.results = <<>>

\* a traversal with maxHops = 0 has returned from a start node that has a
\* link of sufficient strength
C10_Witness ==
    /\ trav.pc = "done"
    /\ trav.maxHops = 0
    /\ trav.results = <<>>
    /\ \E l \in LinkSet(trav.index[trav.startId]) :
          l.strength >= trav.minStrength /\ l.toId # trav.startId

\* C11: traverseChain(start, ...) never emits a result whose id is the start
\* node, whatever the graph: a self-loop on start, mirrored links back to
\* start, a longer cycle through start.
C11_StartNeverEmitted ==
    trav.pc # "idle" =>
       \A i \in DOMAIN trav.results : trav.results[i].id # trav.startId

\* a finished traversal from a start node that has a self-loop of sufficient
\* strength, a neighbour whose mirrored link points back to it, and a cycle of
\* three nodes through it, all within the hop bound
C11_Witness ==
    /\ trav.pc = "done"
    /\ trav.maxHops >= 3
    /\ \A n \in Node \ {trav.startId} :
          \E i \in DOMAIN trav.results : trav.results[i].id = n
    /\ \E l \in LinkSet(trav.index[trav.startId]) :
          l.toId = trav.startId /\ l.strength >= trav.minStrength
    /\ \A n \in Node \ {trav.startId} :
          /\ \E l \in LinkSet(trav.index[n]) :
                l.toId = trav.startId /\ l.strength >= trav.minStrength
          /\ \E l \in LinkSet(trav.index[n]) :
                l.toId \notin {n, trav.startId} /\ l.strength >= trav.minStrength

\* the nodes that k links of strength >= minStrength lead to from the set S
RECURSIVE StrongWithin(_, _, _, _)
StrongWithin(index, S, minStrength, k) ==
    IF k = 0 THEN S
    ELSE StrongWithin(index,
                      S \cup {l.toId : l \in UNION {{m \in LinkSet(index[n]) :
                                                        m.strength >= minStrength} : n \in S}},
                      minStrength, k - 1)

\* the x-y (0.9), y-z (0.4) chain of two addLink calls and nothing else
ScenarioC(index) ==
    /\ \A n \in Node : \A l \in LinkSet(index[n]) :
          /\ {l.fromId, l.toId} \in {{"x", "y"}, {"y", "z"}}
          /\ l.strength = (IF "x" \in {l.fromId, l.toId} THEN 9000 ELSE 4000)
    /\ Len(index["x"]) = 1 /\ Len(index["y"]) = 2 /\ Len(index["z"]) = 1

\* C12: every result of traverseChain has linkStrength >= minStrength; a node
\* that no path of links of strength >= minStrength joins to the start is
\* never emitted; and on the chain x-y (0.9), y-z (0.4),
\* traverseChain("x", 3, 0.5) returns exactly one result, y at hopDistance 1.
C12_WeakLinksNotCrossed ==
    trav.pc # "idle" =>
       /\ \A i \in DOMAIN trav.results :
             /\ trav.results[i].linkStrength >= trav.minStrength
             /\ trav.results[i].id \in
                    StrongWithin(trav.index, {trav.startId}, trav.minStrength,
                                 Cardinality(Node))
       /\ (/\ trav.pc = "done" /\ ScenarioC(trav.index)
           /\ trav.startId = "x" /\ trav.maxHops = 3 /\ trav.minStrength = 5000)
          => /\ Len(trav.results) = 1
             /\ trav.results[1].id = "y"
             /\ trav.results[1].hopDistance = 1

\* the scenario has run: traverseChain("x", 3, 0.5) on the chain has returned
\* y and has left z out
C12_Witness ==
    /\ trav.pc = "done"
    /\ ScenarioC(trav.index)
    /\ trav.startId = "x" /\ trav.maxHops = 3 /\ trav.minStrength = 5000
    /\ \E i \in DOMAIN trav.results : trav.results[i].id = "y"
    /\ \A i \in DOMAIN trav.results : trav.results[i].id # "z"

(***************************************************************************)
(* Properties of the graph store on a missing or damaged index file,       *)
(* checked under SpecDamaged.                                              *)
(***************************************************************************)
Unreadable(file) == file.status \in {"missing", "corrupt"}

\* C19: when the index file is missing or does not parse, getLinks,
\* traverseChain and findRelated return the empty list, as on an empty graph,
\* and removeLink leaves the file as it is.
C19_UnreadableIndexIsEmptyGraph ==
    [][/\ (/\ Unreadable(indexFile)
            /\ out.pc = "none"
            /\ out'.pc \in {"links", "traversed", "related"})
           => out'.value = <<>>
       /\ \A p \in DamagedLinkInputs :
             (Unreadable(indexFile) /\ RemoveLink(p[1], p[2]))
                => (indexFile' = indexFile /\ ~lastOp'.saved)]_vars

\* on a damaged file that held a link from x, removeLink of that link has
\* written nothing and traverseChain from x has returned the empty list
C19_Witness ==
    /\ indexFile.status = "corrupt"
    /\ lastOp.op = "removeLink"
    /\ ~lastOp.saved
    /\ HasLinkTo(indexFile.data[lastOp.fromId], lastOp.toId)
    /\ out.pc = "traversed"
    /\ out.entryId = lastOp.fromId
    /\ out.value = <<>>

(***************************************************************************)
(* Properties of unlocked writers, checked under SpecWriters.              *)
(***************************************************************************)
\* no call has loaded the index while another call was between its steps
Serialized == \A w \in Writer : writers[w].pc # "idle" => ~writers[w].concurrent

\* a removeLink(fromId, toId) that completed after the call of w
RemovedLater(w, fromId, toId) ==
    \E v \in Writer \ {w} :
       /\ Done(v)
       /\ writers[v].op = "removeLink"
       /\ writers[v].fromId = fromId /\ writers[v].toId = toId
       /\ writers[v].order > writers[w].order

Stored(fromId, toId) == HasLinkTo(getLinks(indexFile, fromId), toId)

\* C20: addLink and removeLink read and rewrite the whole document without a
\* lock.  When the calls are serialized, the persisted index holds both
\* links of every completed addLink that no later removeLink dropped; when a
\* call loads the index before another has saved, a link of a completed
\* addLink can be absent (the state C20_Witness).
C20_SerializedWritersKeepEdges ==
    Serialized =>
       \A w \in Writer :
          (Done(w) /\ writers[w].op = "addLink") =>
             LET a == writers[w].fromId  b == writers[w].toId
             IN  /\ ~RemovedLater(w, a, b) => Stored(a, b)
                 /\ ~RemovedLater(w, b, a) => Stored(b, a)

\* a lost update: two addLink calls have completed, one of them loaded the
\* index before the other saved, and the persisted index holds no link of
\* one of the two calls
C20_Witness ==
    /\ \A w \in Writer : Done(w) /\ writers[w].op = "addLink"
    /\ \E w \in Writer : writers[w].concurrent
    /\ \E w \in Writer :
          /\ ~Stored(writers[w].fromId, writers[w].toId)
          /\ ~Stored(writers[w].toId, writers[w].fromId)

(***************************************************************************)
(* Properties of retrieve under every configuration, checked under         *)
(* SpecConfigured.                                                         *)
(***************************************************************************)
\* C16: when retrieve is called with an empty seedIds list, under every
\* configuration (recencyBoost on or off, any half-life) every returned
\* candidate has chainScore = 0, linkStrength = 0, recencyScore = 1.0 and
\* hybridScore equal to its vectorScore.
C16_NoSeedsVectorScoreOnly ==
    (Returned /\ out.seedIds = <<>>) =>
       \A i \in DOMAIN out.results :
          LET e == out.results[i]
          IN  /\ e.chainScore = 0
              /\ e.linkStrength = 0
              /\ e.recencyScore = ONE
              /\ e.hybridScore = e.vectorScore

\* a call without seeds, on an engine with recencyBoost on and a half-life
\* of 0, over a linked graph, has returned two candidates, one of them
\* scored below 1
C16_Witness ==
    /\ Returned
    /\ out.seedIds = <<>>
    /\ config.recencyBoost
    /\ config.recencyHalfLifeHours = 0
    /\ lastOp.op = "addLink"
    /\ Len(out.results) = 2
    /\ \E i \in DOMAIN out.results :
          out.results[i].vectorScore > 0 /\ out.results[i].vectorScore < ONE

\* what retrieve returns for the arguments of the returned call on an engine
\* whose vectorWeight is w, called at time t over the same stores
ResultsWithVectorWeight(w, t) ==
    retrieve(loadIndex(indexFile), vectorFiles, [config EXCEPT !.vectorWeight = w], t,
             out.queryVector, out.seedIds, out.maxResults, out.minScore, <<>>).results

\* C17: two engines whose configurations differ only in vectorWeight return
\* the same list (ids, order, scores) for the same stores, query, seeds and
\* options: the call of the second engine, a clock tick later, returns what
\* the first call returned.
C17_VectorWeightUnused ==
    Returned =>
       \A w \in VectorWeightInputs : ResultsWithVectorWeight(w, now + 1) = out.results

\* a call on an engine with a vectorWeight other than the default has
\* returned a candidate of both stages and a second candidate
C17_Witness ==
    /\ Returned
    /\ config.vectorWeight # DEFAULT_HYBRID_CONFIG.vectorWeight
    /\ Len(out.results) = 2
    /\ out.results[1].hybridScore > out.results[2].hybridScore
    /\ \E i \in DOMAIN out.results :
          out.results[i].vectorScore > 0 /\ out.results[i].linkStrength > 0

(***************************************************************************)
(* Properties of the vector store, checked under SpecVector.               *)
(***************************************************************************)
Searched == out.pc = "searched"

ZeroNorm(vector) == \A i \in DOMAIN vector : vector[i] = 0

\* C13: search(query, k, partitions) with k >= 0 returns at most k results,
\* every one with score > 0; a query of zero norm gets no result.
C13_AtMostKPositive ==
    Searched =>
       /\ Len(out.results) <= out.k
       /\ \A i \in DOMAIN out.results : out.results[i].score > 0
       /\ ZeroNorm(out.queryVector) => out.results = <<>>

\* a search with k = 1 over files that hold two records of positive score and
\* a record of score 0 has returned one result
C13_Witness ==
    /\ Searched
    /\ out.k = 1
    /\ Len(out.results) = 1
    /\ LET entries == loadVectors(vectorFiles, out.weekNumbers)
           scoreOf(e) == cosineSimilarity(normalizeVector(out.queryVector),
                                          normalizeVector(e.vector))
       IN  /\ Cardinality({i \in DOMAIN entries : scoreOf(entries[i]) > 0}) = 2
           /\ \E i \in DOMAIN entries : scoreOf(entries[i]) = 0

\* C14 as stated: the list search returns is strictly descending by score.
C14_StrictlyDescending ==
    Searched =>
       \A i \in DOMAIN out.results : \A j \in DOMAIN out.results :
          i < j => out.results[i].score > out.results[j].score

\* C14 amended: the list search returns is descending by score, results of
\* equal score following one another: each result's score is greater than
\* or equal to the score of the result that follows it.
C14_Descending ==
    Searched =>
       \A i \in DOMAIN out.results : \A j \in DOMAIN out.results :
          i < j => out.results[i].score >= out.results[j].score

\* a search has returned two results of equal score, ahead of a record that
\* is stored before them and scores lower
C14_Witness ==
    /\ Searched
    /\ Len(out.results) = 2
    /\ out.results[1].score = out.results[2].score
    /\ out.results[1].id # out.results[2].id
    /\ LET entries == loadVectors(vectorFiles, out.weekNumbers)
       IN  /\ Len(entries) = 3
           /\ entries[1].vector # entries[2].vector
           /\ entries[2].vector = entries[3].vector

\* C15: cosineSimilarity(a, b) is exactly 0 when a or b has zero norm (both
\* included) and when a and b differ in length; normalizeVector returns a
\* vector of zero norm unchanged.
C15_ZeroNormIsZero ==
    /\ out.pc = "similarity" =>
          ((ZeroNorm(out.a) \/ ZeroNorm(out.b) \/ Len(out.a) # Len(out.b))
              => out.value = 0)
    /\ out.pc = "normalized" => (ZeroNorm(out.vector) => out.value = out.vector)

\* cosineSimilarity has returned 0 for two zero vectors of the same length
C15_Witness ==
    /\ out.pc = "similarity"
    /\ out.a = out.b
    /\ Len(out.a) = Dimensions
    /\ ZeroNorm(out.a)
    /\ out.value = 0

\* the entries of the lines that parse and hold a vector of n components
RECURSIVE WellFormed(_, _)
WellFormed(lines, n) ==
    IF lines = <<>> THEN <<>>
    ELSE IF Head(lines).ok /\ Len(Head(lines).entry.vector) = n
         THEN <<Head(lines).entry>> \o WellFormed(Tail(lines), n)
         ELSE WellFormed(Tail(lines), n)

\* C18: loadVectors returns exactly the well-formed records whose vector
\* length is the configured dimension, in stored order (file after file, in
\* the order of the listed partitions): a malformed line or a record of
\* another dimension is skipped and no other record with it, and a listed
\* partition without a file contributes nothing.
C18_LoadsWellFormedRecords ==
    out.pc = "loaded" =>
       LET weeks == IF out.weekNumbers = <<>> THEN AllWeeks ELSE out.weekNumbers
       IN  out.entries =
              Concat([i \in DOMAIN weeks |->
                         WellFormed(vectorFiles[weeks[i]].lines, Dimensions)])

\* loadVectors has read a listed partition without a file and a file in
\* which a record follows a malformed line, and has returned that record
C18_Witness ==
    /\ out.pc = "loaded"
    /\ out.weekNumbers = <<2, 1>>
    /\ ~vectorFiles[2].exists
    /\ LET lines == vectorFiles[1].lines
       IN  /\ Len(lines) = 3
           /\ ~lines[1].ok
           /\ lines[2].ok /\ Len(lines[2].entry.vector) # Dimensions
           /\ lines[3].ok /\ Len(lines[3].entry.vector) = Dimensions
           /\ out.entries = <<lines[3].entry>>

(***************************************************************************)
(* The order and the number of the results of traverseChain, checked under *)
(* SpecTraverse.                                                           *)
(***************************************************************************)
\* the position of the first dequeue of a node, 0 when it has not happened
DequeuedAt(id) ==
    IF \E i \in DOMAIN trav.dequeued : trav.dequeued[i].id = id
    THEN CHOOSE i \in DOMAIN trav.dequeued : trav.dequeued[i].id = id
    ELSE 0

\* the links of an expanded node that lead, with strength >= minStrength, to
\* a node whose first dequeue comes after the expansion, in list order
QualifyingLinks(fromId) ==
    SelectSeq(trav.index[fromId],
              LAMBDA l : /\ l.strength >= trav.minStrength
                         /\ (DequeuedAt(l.toId) = 0 \/ DequeuedAt(l.toId) > DequeuedAt(fromId)))

\* C27: traverseChain emits one result for every link of strength >=
\* minStrength that leads to a node from a node expanded (below the hop
\* bound) before that node's first dequeue, so an id can be emitted more than
\* once; the results are in frontier order, then in the order of the
\* adjacency list.
C27_OneResultPerQualifyingLink ==
    trav.pc # "idle" =>
       [i \in DOMAIN trav.results |->
           <<trav.results[i].path[Len(trav.results[i].path) - 1],
             trav.results[i].id, trav.results[i].linkStrength>>]
       = Concat([k \in DOMAIN trav.expanded |->
                    LET links == QualifyingLinks(trav.expanded[k])
                    IN  [j \in DOMAIN links |->
                           <<trav.expanded[k], links[j].toId, links[j].strength>>]])

\* a returned call has emitted one id twice, on two paths of different
\* length
C27_Witness ==
    /\ trav.pc = "done"
    /\ \E i \in DOMAIN trav.results, j \in DOMAIN trav.results :
          /\ i < j
          /\ trav.results[i].id = trav.results[j].id
          /\ trav.results[i].path # trav.results[j].path
          /\ trav.results[i].hopDistance < trav.results[j].hopDistance

\* the length of the shortest path from the start to a node over links of
\* strength >= minStrength; the node is one that such a path reaches
ShortestHops(id) ==
    CHOOSE k \in 0..Cardinality(Node) :
       /\ id \in StrongWithin(trav.index, {trav.startId}, trav.minStrength, k)
       /\ \A j \in 0..(k - 1) :
             id \notin StrongWithin(trav.index, {trav.startId}, trav.minStrength, j)

\* C30: the first result emitted for an id has hopDistance equal to the
\* length of the shortest path from the start over links of strength >=
\* minStrength, every later result for the id has a hopDistance at least
\* that, and every node is expanded at its shortest hop count.
C30_FirstResultAtShortestHops ==
    trav.pc # "idle" =>
       /\ \A i \in DOMAIN trav.results :
             LET id == trav.results[i].id
             IN  /\ trav.results[i].hopDistance >= ShortestHops(id)
                 /\ (\A j \in 1..(i - 1) : trav.results[j].id # id)
                       => trav.results[i].hopDistance = ShortestHops(id)
       /\ \A i \in DOMAIN trav.dequeued :
             (\E k \in DOMAIN trav.expanded : trav.expanded[k] = trav.dequeued[i].id)
                => trav.dequeued[i].hops = ShortestHops(trav.dequeued[i].id)

\* a returned call has emitted and expanded, at hop 2, a node to which the
\* start has a direct link that is below minStrength
C30_Witness ==
    /\ trav.pc = "done"
    /\ \E i \in DOMAIN trav.dequeued :
          /\ trav.dequeued[i].hops = 2
          /\ \E k \in DOMAIN trav.expanded : trav.expanded[k] = trav.dequeued[i].id
          /\ \E l \in LinkSet(trav.index[trav.startId]) :
                l.toId = trav.dequeued[i].id /\ l.strength < trav.minStrength
          /\ \E j \in DOMAIN trav.results :
                /\ trav.results[j].id = trav.dequeued[i].id
                /\ trav.results[j].hopDistance = 2

(***************************************************************************)
(* Termination of traverseChain, checked under SpecTraverseFair.           *)
(***************************************************************************)
\* C21: traverseChain terminates on every graph, with cycles, self-loops and
\* the mirrored links of addLink, for every maxHops and minStrength: the
\* frontier of a call becomes empty and the call returns.
C21_TraversalTerminates ==
    /\ (trav.pc = "loop") ~> (trav.pc = "loop" /\ trav.queue = <<>>)
    /\ (trav.pc = "loop") ~> (trav.pc = "done")

\* a call with maxHops 3 has returned from a start node with a self-loop, on
\* a graph whose three nodes are linked to one another in both directions
C21_Witness ==
    /\ trav.pc = "done"
    /\ trav.maxHops = 3
    /\ trav.queue = <<>>
    /\ HasLinkTo(trav.index[trav.startId], trav.startId)
    /\ \A a \in Node : \A b \in Node \ {a} :
          \E l \in LinkSet(trav.index[a]) : l.toId = b /\ l.strength >= trav.minStrength

(***************************************************************************)
(* Properties of decidePolicy and of runNeuronWavesLoop(input), checked    *)
(* under SpecGate.                                                         *)
(***************************************************************************)
\* C22: decidePolicy returns decision "block" for the action classes
\* money_movement and identity_security_sensitive at each of the levels 1, 2
\* and 3, whatever the allowlists, the denylists, requireApproval, the limits
\* and the stats are.
C22_MoneyAndIdentityBlocked ==
    (/\ nw.pc = "decided"
     /\ nw.input.actionClass \in {"money_movement", "identity_security_sensitive"}
     /\ nw.input.autonomy.level \in {1, 2, 3})
    => nw.policy.decision = "block"

\* a level 3 call on money_movement that no limit and no denylist blocks: the
\* list of hard-blocked classes is what blocks it
C22_Witness ==
    /\ nw.pc = "decided"
    /\ nw.input.actionClass = "money_movement"
    /\ nw.input.autonomy.level = 3
    /\ ~nw.input.autonomy.requireApproval
    /\ nw.input.autonomy.deny.actions = {}
    /\ nw.input.autonomy.allow.tools # {}
    /\ nw.stats.actionsConsidered < nw.input.autonomy.limits.maxActionsPerRun
    /\ nw.policy = [decision |-> "block",
                    reasons |-> << <<"blocks money, identity", "dev mode">> >>]

\* the steps of the plan that the policy loop has decided and not blocked
NotBlocked(steps) ==
    {k \in 1..Len(steps) : steps[k].status \in {"allowed", "executed", "skipped"}}

\* C23: decidePolicy returns "block" whenever stats.actionsConsidered >=
\* limits.maxActionsPerRun, whenever the class is external and
\* stats.externalCount >= limits.maxExternalPerRun, and whenever the class is
\* irreversible and stats.irreversibleCount >= limits.maxIrreversiblePerRun;
\* and at every point of a run of the loop, the number of plan steps that are
\* not blocked and the number of executed steps are at most maxActionsPerRun.
C23_LimitsBlock ==
    /\ nw.pc = "decided" =>
          LET limits == nw.input.autonomy.limits
              class == nw.input.actionClass
          IN  /\ nw.stats.actionsConsidered >= limits.maxActionsPerRun
                    => nw.policy.decision = "block"
              /\ (/\ class \in EXTERNAL_CLASSES
                  /\ "maxExternalPerRun" \in DOMAIN limits
                  /\ nw.stats.externalCount >= limits.maxExternalPerRun)
                    => nw.policy.decision = "block"
              /\ (/\ class \in IRREVERSIBLE_CLASSES
                  /\ "maxIrreversiblePerRun" \in DOMAIN limits
                  /\ nw.stats.irreversibleCount >= limits.maxIrreversiblePerRun)
                    => nw.policy.decision = "block"
    /\ nw.pc \in {"policy", "execute", "returned"} =>
          LET maxActionsPerRun == nw.autonomy.limits.maxActionsPerRun
          IN  /\ Cardinality(NotBlocked(nw.steps)) <= maxActionsPerRun
              /\ nw.stats.actionsConsidered = Cardinality(NotBlocked(nw.steps))
              /\ nw.executedCount <= maxActionsPerRun
              /\ Cardinality({k \in 1..Len(nw.steps) : nw.steps[k].status = "executed"})
                     <= maxActionsPerRun

\* a run at level 3 with maxActionsPerRun 0: the step of the plan is blocked
\* by the limit and nothing is executed
C23_Witness ==
    /\ nw.pc = "returned"
    /\ nw.autonomy.level = 3
    /\ nw.autonomy.limits.maxActionsPerRun = 0
    /\ nw.steps[1].status = "blocked"
    /\ nw.steps[1].policyReasons = << <<"limit reached", "maxActionsPerRun">> >>
    /\ nw.executedCount = 0
    /\ nw.outcome = "blocked"

(***************************************************************************)
(* Properties of runNeuronWavesLoop(config, deps, observation), checked    *)
(* under SpecOrchestrator.                                                 *)
(***************************************************************************)
Executed(k) ==
    \/ nw.stepStates[k].status = "success"
    \/ \E n \in 1..Len(nw.logs) : nw.logs[n] = <<"Executing step", k>>

Untouched(k) ==
    /\ nw.stepStates[k] = [status |-> "pending", attempts |-> 0, policy |-> undefined]
    /\ \A n \in 1..Len(nw.logs) : nw.logs[n][2] # k

\* C24: in the orchestrator loop a step whose policy decision is
\* allow_with_prompt is never executed: it is the first such step of the
\* plan, it is marked awaiting_approval, no later step is evaluated or
\* executed, and the run returns status awaiting_approval; a step whose
\* decision is block is never executed either.
C24_PromptedAndBlockedNotExecuted ==
    nw.pc \in {"loop", "returned"} =>
        \A k \in 1..Len(nw.steps) :
            /\ nw.stepStates[k].policy = "block" =>
                  ~Executed(k) /\ nw.stepStates[k].status = "skipped"
            /\ nw.stepStates[k].policy = "allow_with_prompt" =>
                  /\ ~Executed(k)
                  /\ nw.stepStates[k].status = "awaiting_approval"
                  /\ \A j \in 1..(k - 1) : nw.stepStates[j].policy # "allow_with_prompt"
                  /\ \A j \in (k + 1)..Len(nw.steps) : Untouched(j)
                  /\ nw.awaitingApproval
                  /\ nw.pc = "returned" => nw.status = "awaiting_approval"

\* a returned run that executed its first step, stopped at its second, which
\* awaits approval, and left a third step untouched
C24_Witness ==
    /\ nw.pc = "returned"
    /\ nw.status = "awaiting_approval"
    /\ Len(nw.steps) = 3
    /\ nw.stepStates[1].status = "success"
    /\ nw.stepStates[2].policy = "allow_with_prompt"
    /\ nw.stepStates[2].status = "awaiting_approval"
    /\ nw.stepStates[3].attempts = 0

\* whether a step needs human approval at the autonomy of the run: every
\* step at 0.0, the steps with requiresApproval at 0.5
ApprovalRequired(k) ==
    nw.autonomy = 0 \/ (nw.autonomy = 5000 /\ nw.steps[k].requiresApproval)

\* C25: when the orchestrator loop runs with autonomy 0.0 or 0.5 on a plan of
\* the heuristic planner, no step that needs approval (every step at 0.0,
\* every step with requiresApproval at 0.5) is executed, and the run returns
\* status awaiting_approval rather than completed.
C25_ApprovalBeforeExecution ==
    (/\ nw.pc \in {"loop", "returned"}
     /\ nw.planner = "heuristic"
     /\ nw.autonomy \in {0, 5000})
    => /\ \A k \in 1..Len(nw.steps) : ApprovalRequired(k) => ~Executed(k)
       /\ nw.pc = "returned" => nw.status = "awaiting_approval"

(***************************************************************************)
(* Properties of decide, checked under SpecTier.                           *)
(***************************************************************************)
\* no cap of the policy is reached by the counts of the call
NoLimitReached ==
    \/ "limits" \notin DOMAIN nw.policy
    \/ nw.rest = <<>>
    \/ LET limits == nw.policy.limits
           stats == nw.rest[1]
           class == nw.step.classification.class
           externalCount ==
               IF "externalCount" \in DOMAIN stats THEN stats.externalCount ELSE 0
           irreversibleCount ==
               IF "irreversibleCount" \in DOMAIN stats THEN stats.irreversibleCount ELSE 0
       IN  /\ ~(/\ "maxExternalPerRun" \in DOMAIN limits
                /\ class \in {"external_read", "external_write_reversible",
                              "external_write_irreversible", "external_comms",
                              "money_movement", "identity_security_sensitive"}
                /\ externalCount >= limits.maxExternalPerRun)
           /\ ~(/\ "maxIrreversiblePerRun" \in DOMAIN limits
                /\ class \in {"external_write_irreversible", "money_movement",
                              "identity_security_sensitive"}
                /\ irreversibleCount >= limits.maxIrreversiblePerRun)

\* the allowlist of the policy for the class of the step; none is the empty one
AllowlistOfStep ==
    IF "allowlists" \in DOMAIN nw.policy
       /\ nw.step.classification.class \in DOMAIN nw.policy.allowlists
    THEN nw.policy.allowlists[nw.step.classification.class]
    ELSE {}

\* the decision of the tier table
TierTable(tier, class, allowlisted) ==
    IF tier = 1
    THEN IF class \in {"local_read", "local_write"} THEN "allow" ELSE "deny"
    ELSE IF tier = 2
    THEN IF class \in {"local_read", "local_write", "external_read"} THEN "allow"
         ELSE IF class \in {"external_write_reversible", "external_comms"}
         THEN IF allowlisted THEN "allow" ELSE "ask"
         ELSE "deny"
    ELSE "allow"

\* C26 as stated: decide with no limit reached follows the tier table for
\* every action class, a step of class external_write_reversible or
\* external_comms being allowed at tier 2 when its allowlistKey is in the
\* allowlist of its class and asked about otherwise.
C26_TierTable ==
    (nw.pc = "tier decided" /\ NoLimitReached) =>
        nw.result.decision =
            TierTable(nw.policy.tier, nw.step.classification.class,
                      /\ nw.step.classification.allowlistKey # undefined
                      /\ nw.step.classification.allowlistKey \in AllowlistOfStep)

\* C26 amended: decide with no limit reached follows the tier table for every
\* action class, a step of class external_write_reversible or external_comms
\* being allowed at tier 2 when its allowlistKey is a non-empty string in the
\* allowlist of its class and asked about otherwise, the empty key included.
C26_TierTableNonEmptyKey ==
    (nw.pc = "tier decided" /\ NoLimitReached) =>
        nw.result.decision =
            TierTable(nw.policy.tier, nw.step.classification.class,
                      /\ nw.step.classification.allowlistKey \notin {undefined, ""}
                      /\ nw.step.classification.allowlistKey \in AllowlistOfStep)

\* a tier 2 call on an external_comms step with an allowlisted key, made with
\* caps and counts that do not reach them
C26_Witness ==
    /\ nw.pc = "tier decided"
    /\ nw.policy.tier = 2
    /\ "limits" \in DOMAIN nw.policy
    /\ nw.rest # <<>>
    /\ NoLimitReached
    /\ nw.step.classification = [class |-> "external_comms", allowlistKey |-> "ok"]
    /\ nw.result.decision = "allow"

====
